---------------------------- MODULE Spec2Model ----------------------------
(***************************************************************************)
(* Verification model of the hud-financing deal engine (src/engine).       *)
(*                                                                         *)
(* Arithmetic.  The engine computes in floating point; the model computes  *)
(* exactly, in integers:                                                   *)
(*   - a tranche percentage is a number of hundredths (PctDen),            *)
(*   - a rate or fee rate is a number of basis points (RateDen),           *)
(*   - an amount of money is a number of 1/MoneyScale of the loan unit,    *)
(*     MoneyScale = PctDen * RateDen * 12, so that                         *)
(*     loan_amount * percentage * rate / 12 is an integer and no division  *)
(*     ever rounds.                                                        *)
(***************************************************************************)
EXTENDS Integers, Sequences, FiniteSets, TLC

VARIABLES
    \* --- obtaining a Deal (deal.py) and handing it to the cashflow engine
    dl_pc,        \* "idle" | "built" | "raised" | "used"
    dl_route,     \* which construction route was taken
    dl_deal,      \* the Deal object obtained (NoDeal when none)
    dl_used,      \* the Deal generate_cashflows received (NoDeal when none)
    \* --- loss waterfall (defaults.py)
    lw_pc,        \* "input" | "allocated" | "waterfall"
    lw_in,        \* arguments of the call
    lw_out,       \* what the call returned
    \* --- run_monte_carlo (monte_carlo.py)
    mc_pc,        \* position inside run_monte_carlo
    mc_args,      \* the caller's arguments: deal, exit_month, config, params
    mc_rng,       \* state of random_state = RandomState(config.random_seed)
    mc_loc,       \* the locals of the running call
    mc_ret,       \* results returned by the calls made so far
    \* --- the statistics block of run_monte_carlo on its own
    st_pc,        \* "input" | "done"
    st_irrs,      \* the irrs array
    st_out,       \* the statistics computed from it
    \* --- generate_cashflows / generate_fund_cashflows (cashflows.py)
    cf_pc,        \* "input" | "returned" | "raised"
    cf_args,      \* deal, sofr_curve, exit_month, has_extension, mode
    cf_out,       \* the dictionary returned
    \* --- _calc_irr on its own (cashflows.py)
    ir_pc,        \* "input" | "returned"
    ir_in,        \* the cashflows
    ir_out,       \* what the call returned
    \* --- run_1way_sensitivity, run_2way_sensitivity, calculate_breakeven
    sn_pc,        \* position inside the running call
    sn_args,      \* the arguments as they were when the call was made
    sn_heap,      \* the caller's Deal and rate path objects, as they are now
    sn_loc,       \* the locals of the running call
    sn_out,       \* what the call returned
    \* --- generate_vasicek_path on its own (monte_carlo.py)
    vk_pc,        \* "input" | "returned"
    vk_in,        \* params, months and the state of the random generator
    vk_out,       \* the path returned
    \* --- get_live_sofr and the module-level cache (sofr.py)
    sf_pc,        \* "ready" | "returned"
    sf_cache,     \* _sofr_cache
    sf_now,       \* datetime.now(), in minutes
    sf_last,      \* the most recent rate a fetch delivered, with its time
    sf_ret,       \* the last call: its arguments, its fetches, its SOFRData
    \* --- a ReserveManager and simulate_reserves_over_time (reserves.py)
    rs_pc,        \* "ready" | "returned"
    rs_accounts,  \* reserve_manager.accounts: the ReserveAccount objects
    rs_args,      \* the arguments of the last simulate_reserves_over_time
    rs_ret,       \* what that call returned
    \* --- generate_prepayment_schedule, find_optimal_prepay_window
    pp_pc,        \* "input" | "scheduled" | "returned"
    pp_in,        \* the arguments
    pp_schedule,  \* the schedule generated
    pp_out        \* the window returned

dl_vars == <<dl_pc, dl_route, dl_deal, dl_used>>
lw_vars == <<lw_pc, lw_in, lw_out>>
mc_vars == <<mc_pc, mc_args, mc_rng, mc_loc, mc_ret>>
st_vars == <<st_pc, st_irrs, st_out>>
cf_vars == <<cf_pc, cf_args, cf_out>>
ir_vars == <<ir_pc, ir_in, ir_out>>
sn_vars == <<sn_pc, sn_args, sn_heap, sn_loc, sn_out>>
vk_vars == <<vk_pc, vk_in, vk_out>>
sf_vars == <<sf_pc, sf_cache, sf_now, sf_last, sf_ret>>
rs_vars == <<rs_pc, rs_accounts, rs_args, rs_ret>>
pp_vars == <<pp_pc, pp_in, pp_schedule, pp_out>>
vars == <<dl_vars, lw_vars, mc_vars, st_vars, cf_vars, ir_vars, sn_vars,
          vk_vars, sf_vars, rs_vars, pp_vars>>

\* A component no call is made on in the behaviours under study.
McIdle == mc_pc = "idle" /\ mc_args = <<>> /\ mc_rng = 0 /\ mc_loc = <<>> /\ mc_ret = <<>>
StIdle == st_pc = "idle" /\ st_irrs = <<>> /\ st_out = <<>>
CfIdle == cf_pc = "idle" /\ cf_args = <<>> /\ cf_out = <<>>
IrrIdle == ir_pc = "idle" /\ ir_in = <<>> /\ ir_out = <<>>
SensIdle ==
    /\ sn_pc = "idle" /\ sn_args = <<>> /\ sn_heap = <<>>
    /\ sn_loc = <<>> /\ sn_out = <<>>
VasicekIdle == vk_pc = "idle" /\ vk_in = <<>> /\ vk_out = <<>>
SofrIdle ==
    /\ sf_pc = "idle" /\ sf_cache = <<>> /\ sf_now = 0
    /\ sf_last = <<>> /\ sf_ret = <<>>
ReservesIdle ==
    /\ rs_pc = "idle" /\ rs_accounts = <<>> /\ rs_args = <<>> /\ rs_ret = <<>>
PrepayIdle ==
    /\ pp_pc = "idle" /\ pp_in = <<>> /\ pp_schedule = <<>> /\ pp_out = <<>>

(***************************************************************************)
(* Units                                                                   *)
(***************************************************************************)
PctDen == 100
RateDen == 10000
MonthsPerYear == 12
MoneyScale == PctDen * RateDen * MonthsPerYear

Abs(x) == IF x < 0 THEN -x ELSE x
Min(a, b) == IF b < a THEN b ELSE a
Max(a, b) == IF b > a THEN b ELSE a

RECURSIVE SeqSum(_)
SeqSum(s) == IF s = <<>> THEN 0 ELSE Head(s) + SeqSum(Tail(s))

\* A Python list built by a comprehension: every element is computed once.
list(f) == SubSeq(f, 1, Len(f))

SeqMap(Op(_), s) == [i \in 1..Len(s) |-> Op(s[i])]

SelectSeqIdx(s, Test(_)) == {i \in 1..Len(s) : Test(s[i])}

(***************************************************************************)
(* deal.py : Tranche, FeeStructure, FundTerms, Deal                        *)
(***************************************************************************)
NoDeal == [none |-> TRUE]

\* Tranche(tranche_type, percentage, rate_type, spread, is_current_pay=True,
\*         fee_allocation_pct=0.0)
Tranche(ty, pct, rt, spread, cp, fa) ==
    [tranche_type |-> ty, percentage |-> pct, rate_type |-> rt,
     spread |-> spread, is_current_pay |-> cp, fee_allocation_pct |-> fa]

\* FeeStructure defaults: 1% origination, 0.5% exit, 0 monthly, 0.5% extension
FeeStructure(orig, exit, mgmt, ext) ==
    [origination_fee |-> orig, exit_fee |-> exit,
     monthly_asset_mgmt_fee |-> mgmt, extension_fee |-> ext]

DefaultOriginationFee == 100
DefaultExitFee == 50
DefaultExtensionFee == 50
DefaultMonthlyMgmtFee == 0
DefaultBorrowerSpread == 400
DefaultTermMonths == 36
DefaultCoinvestPct == 10

FundTerms(aum, promote, hurdle) ==
    [aum_fee_pct |-> aum, promote_pct |-> promote, hurdle_rate |-> hurdle]

DefaultBFundTerms == FundTerms(150, 20, 800)
DefaultCFundTerms == FundTerms(200, 20, 1000)

\* The dataclass constructor: it stores its arguments.  The class defines no
\* __post_init__, so nothing is checked here.
Deal(pv, loan, term, tranches, fees, bspread) ==
    [property_value |-> pv, loan_amount |-> loan, term_months |-> term,
     tranches |-> tranches, fees |-> fees, borrower_spread |-> bspread,
     borrower_rate_type |-> "floating", borrower_fixed_rate |-> 0,
     b_fund_terms |-> DefaultBFundTerms, c_fund_terms |-> DefaultCFundTerms,
     aggregator_coinvest_pct |-> DefaultCoinvestPct]

total_percentage(deal) == SeqSum(SeqMap(LAMBDA t : t.percentage, deal.tranches))

\* Deal.validate raises ValueError when abs(total - 1.0) > 0.001.
ValidateTolerancePerMille == 1
validate_raises(deal) ==
    Abs(total_percentage(deal) - PctDen) * 1000 > ValidateTolerancePerMille * PctDen

\* Deal.from_dict: every tranche dict becomes a Tranche, absent keys take their
\* defaults; validate is not called.
TrancheFromDict(t) ==
    Tranche(t.type, t.percentage, t.rate_type, t.spread,
            IF "is_current_pay" \in DOMAIN t THEN t.is_current_pay ELSE TRUE,
            IF "fee_allocation_pct" \in DOMAIN t THEN t.fee_allocation_pct ELSE 0)

from_dict(data) ==
    Deal(data.property_value, data.loan_amount,
         IF "term_months" \in DOMAIN data THEN data.term_months ELSE DefaultTermMonths,
         SeqMap(TrancheFromDict, data.tranches),
         FeeStructure(DefaultOriginationFee, DefaultExitFee,
                      DefaultMonthlyMgmtFee, DefaultExtensionFee),
         IF "borrower_spread" \in DOMAIN data THEN data.borrower_spread
                                              ELSE DefaultBorrowerSpread)

\* create_default_deal builds A/B/C tranches and calls deal.validate().
DefaultTranches(a_pct, b_pct, c_pct) ==
    << Tranche("A", a_pct, "floating", 200, TRUE, 0),
       Tranche("B", b_pct, "floating", 600, TRUE, 0),
       Tranche("C", c_pct, "fixed", 1200, TRUE, 0) >>

create_default_deal(pv, ltv, a_pct, b_pct, c_pct) ==
    LET deal == Deal(pv, (pv * ltv) \div PctDen, DefaultTermMonths,
                     DefaultTranches(a_pct, b_pct, c_pct),
                     FeeStructure(DefaultOriginationFee, DefaultExitFee,
                                  DefaultMonthlyMgmtFee, DefaultExtensionFee),
                     DefaultBorrowerSpread)
    IN  IF validate_raises(deal) THEN [raised |-> "ValueError"]
                                 ELSE [raised |-> "", deal |-> deal]


(***************************************************************************)
(* Obtaining a Deal and passing it to generate_cashflows                   *)
(***************************************************************************)
APcts == {60, 70, 80}
BPcts == {10, 20, 30}
CPcts == {0, 10, 20}
PropertyValues == {2, 4}
Ltvs == {50}

\* Constructing a Deal touches no other component.
DealFrame ==
    UNCHANGED <<lw_vars, mc_vars, st_vars, cf_vars, ir_vars, sn_vars,
                vk_vars, sf_vars, rs_vars, pp_vars>>

DealIdle ==
    /\ dl_pc = "idle" /\ dl_route = "" /\ dl_deal = NoDeal /\ dl_used = NoDeal

\* deal = Deal(property_value=..., loan_amount=..., tranches=[...])
CallDealConstructor ==
    /\ dl_pc = "idle"
    /\ \E pv \in PropertyValues, a \in APcts, b \in BPcts, c \in CPcts :
          dl_deal' = Deal(pv, (pv * 50) \div PctDen, DefaultTermMonths,
                          DefaultTranches(a, b, c),
                          FeeStructure(DefaultOriginationFee, DefaultExitFee,
                                       DefaultMonthlyMgmtFee, DefaultExtensionFee),
                          DefaultBorrowerSpread)
    /\ dl_pc' = "built"
    /\ dl_route' = "Deal"
    /\ UNCHANGED dl_used
    /\ DealFrame

\* deal = Deal.from_dict(data), also reached through Deal.load_from_file
CallFromDict ==
    /\ dl_pc = "idle"
    /\ \E pv \in PropertyValues, a \in APcts, b \in BPcts, c \in CPcts :
          dl_deal' = from_dict(
              [property_value |-> pv, loan_amount |-> (pv * 50) \div PctDen,
               tranches |->
                 << [type |-> "A", percentage |-> a, rate_type |-> "floating", spread |-> 200],
                    [type |-> "B", percentage |-> b, rate_type |-> "floating", spread |-> 600],
                    [type |-> "C", percentage |-> c, rate_type |-> "fixed", spread |-> 1200,
                     is_current_pay |-> TRUE, fee_allocation_pct |-> 0] >>])
    /\ dl_pc' = "built"
    /\ dl_route' = "from_dict"
    /\ UNCHANGED dl_used
    /\ DealFrame

\* deal = create_default_deal(a_piece_pct=..., b_piece_pct=..., c_piece_pct=...)
CallCreateDefaultDeal ==
    /\ dl_pc = "idle"
    /\ \E pv \in PropertyValues, ltv \in Ltvs, a \in APcts, b \in BPcts, c \in CPcts :
          LET r == create_default_deal(pv, ltv, a, b, c)
          IN  IF r.raised # ""
                THEN dl_pc' = "raised" /\ dl_deal' = NoDeal
                ELSE dl_pc' = "built" /\ dl_deal' = r.deal
    /\ dl_route' = "create_default_deal"
    /\ UNCHANGED dl_used
    /\ DealFrame

\* generate_cashflows(deal, ...) reads the deal as it is: it does not validate.
PassToGenerateCashflows ==
    /\ dl_pc = "built"
    /\ dl_used' = dl_deal
    /\ dl_pc' = "used"
    /\ UNCHANGED <<dl_route, dl_deal>>
    /\ DealFrame

DealNext ==
    \/ CallDealConstructor
    \/ CallFromDict
    \/ CallCreateDefaultDeal
    \/ PassToGenerateCashflows


(***************************************************************************)
(* C1.  No Deal whose tranche percentages fail to sum to 1.0 within 0.001  *)
(* can be obtained, by any construction route, nor be passed to            *)
(* generate_cashflows: such a construction ends in an error.               *)
(***************************************************************************)
C1_NoInvalidDeal ==
    /\ dl_deal # NoDeal => ~validate_raises(dl_deal)
    /\ dl_used # NoDeal => ~validate_raises(dl_used)

(***************************************************************************)
(* defaults.py : DefaultScenario, calculate_total_loss,                    *)
(*               allocate_losses_waterfall, run_loss_waterfall             *)
(***************************************************************************)
DefaultLegalCostsPct == 5
DefaultCarryingCostsPct == 3
DefaultMonthsToRecovery == 12

DefaultScenario(month, recovery, months_to_recovery, legal, carrying) ==
    [default_month |-> month, recovery_rate |-> recovery,
     months_to_recovery |-> months_to_recovery,
     legal_costs_pct |-> legal, carrying_costs_pct |-> carrying]

\* Money of the loss engine, in 1/MoneyScale of the loan unit.
PctOf(amount_units, pct) == amount_units * pct * (MoneyScale \div PctDen)

calculate_total_loss(loan_amount, property_value, scenario, accrued_interest) ==
    LET recovery_proceeds == PctOf(property_value, scenario.recovery_rate)
        legal_costs == PctOf(loan_amount, scenario.legal_costs_pct)
        carrying_costs == loan_amount * scenario.carrying_costs_pct
                            * scenario.months_to_recovery
                            * (MoneyScale \div (PctDen * MonthsPerYear))
        net_recovery == recovery_proceeds - legal_costs - carrying_costs
        total_claim == loan_amount * MoneyScale + accrued_interest
    IN  [recovery_proceeds |-> recovery_proceeds,
         legal_costs |-> legal_costs,
         carrying_costs |-> carrying_costs,
         net_recovery |-> net_recovery,
         total_claim |-> total_claim,
         net_loss |-> Max(total_claim - net_recovery, 0)]

\* tranche.get("seniority", 0)
SeniorityOf(t) == IF "seniority" \in DOMAIN t THEN t.seniority ELSE 0

\* sorted(tranches, key=seniority): stable, ascending.
RECURSIVE InsertBySeniority(_, _)
InsertBySeniority(t, sorted) ==
    IF sorted = <<>> THEN <<t>>
    ELSE IF SeniorityOf(Head(sorted)) <= SeniorityOf(t)
         THEN <<Head(sorted)>> \o InsertBySeniority(t, Tail(sorted))
         ELSE <<t>> \o sorted

RECURSIVE SortBySeniority(_)
SortBySeniority(ts) ==
    IF ts = <<>> THEN <<>>
    ELSE InsertBySeniority(ts[Len(ts)], SortBySeniority(SubSeq(ts, 1, Len(ts) - 1)))

InputOrder(ts) == ts

sorted_tranches(ts) == SortBySeniority(ts)

\* loss_pct >= 0.999 with loss_pct = loss / amount if amount > 0 else 0
WipedOut(loss, amount) ==
    amount > 0 /\ loss >= amount - (amount \div 1000)

AbsorbAll(remaining_loss, tranche_amount) == remaining_loss

\* loss_to_tranche = min(remaining_loss, tranche_amount)
loss_to_tranche(remaining_loss, tranche_amount) == Min(remaining_loss, tranche_amount)

LossAllocation(t, loss) ==
    [tranche_name |-> t.name,
     tranche_amount |-> t.amount,
     loss_amount |-> loss,
     recovery_amount |-> t.amount - loss,
     loss_percentage |-> IF t.amount > 0 THEN [num |-> loss, den |-> t.amount]
                                         ELSE [num |-> 0, den |-> 1],
     is_wiped_out |-> WipedOut(loss, t.amount),
     remaining_principal |-> t.amount - loss]

RECURSIVE AllocateLoop(_, _)
AllocateLoop(remaining_loss, ts) ==
    IF ts = <<>> THEN <<>>
    ELSE LET loss == loss_to_tranche(remaining_loss, Head(ts).amount)
         IN  <<LossAllocation(Head(ts), loss)>>
               \o AllocateLoop(remaining_loss - loss, Tail(ts))

allocate_losses_waterfall(total_loss, tranches) ==
    AllocateLoop(total_loss, sorted_tranches(tranches))

\* next((a for a in allocations if "<X>-Piece" in a.tranche_name), None)
AllocOf(allocations, piece) ==
    LET hits == {i \in 1..Len(allocations) : allocations[i].tranche_name = piece}
    IN  IF hits = {} THEN [none |-> TRUE]
        ELSE allocations[CHOOSE i \in hits : \A j \in hits : i <= j]

run_loss_waterfall(loan_amount, property_value, a_pct, b_pct, c_pct, scenario, sofr, borrower_spread, accrued_months) ==
    LET borrower_rate == sofr + borrower_spread
        accrued_interest == loan_amount * borrower_rate * accrued_months * PctDen
        loss_calc == calculate_total_loss(loan_amount, property_value, scenario,
                                          accrued_interest)
        tranches ==
          << [name |-> "C-Piece", amount |-> PctOf(loan_amount, c_pct), seniority |-> 0],
             [name |-> "B-Piece", amount |-> PctOf(loan_amount, b_pct), seniority |-> 1],
             [name |-> "A-Piece", amount |-> PctOf(loan_amount, a_pct), seniority |-> 2] >>
        allocations == allocate_losses_waterfall(loss_calc.net_loss, tranches)
        senior_alloc == AllocOf(allocations, "A-Piece")
        mezz_alloc == AllocOf(allocations, "B-Piece")
        sponsor_alloc == AllocOf(allocations, "C-Piece")
    IN  [scenario |-> scenario,
         total_loss |-> loss_calc.net_loss,
         total_recovery |-> loss_calc.net_recovery,
         allocations |-> allocations,
         senior_impaired |-> senior_alloc.loss_amount > 0,
         mezz_impaired |-> mezz_alloc.loss_amount > 0,
         sponsor_loss_pct |-> sponsor_alloc.loss_percentage]


(***************************************************************************)
(* Calls of the loss engine                                                *)
(***************************************************************************)
MaxTranches == 3
MaxLoss == 7

\* The amounts of a tranche dict, and its seniority keys; -1 stands for a
\* dict without the "seniority" key.
Amounts == 0..2
SeniorityKeys == -1..2

TrancheDict(i, amount, seniority) ==
    IF seniority < 0
      THEN [name |-> "T" \o ToString(i), amount |-> amount]
      ELSE [name |-> "T" \o ToString(i), amount |-> amount, seniority |-> seniority]

Scenarios ==
    { DefaultScenario(12, rec, mtr, legal, DefaultCarryingCostsPct) :
        rec \in {0, 40, 70, 85, 100}, mtr \in {6, 12, 24},
        legal \in {DefaultLegalCostsPct, 8} }

PctSplits == { <<70, 20, 10>>, <<80, 20, 0>>, <<90, 0, 10>>, <<50, 30, 20>> }

\* The arguments of a direct call of allocate_losses_waterfall: up to
\* MaxTranches dicts in any order, any loss up to MaxLoss.
AllocateInput(l, n, c) ==
    [kind |-> "allocate", total_loss |-> l,
     tranches |-> [i \in 1..n |-> TrancheDict(i, c[i][1], c[i][2])]]

RunInputs ==
    { [kind |-> "run", loan_amount |-> loan, property_value |-> pv,
       split |-> sp, scenario |-> sc, accrued_months |-> am] :
        loan \in {1, 2}, pv \in {1, 2, 3}, sp \in PctSplits,
        sc \in Scenarios, am \in {0, 3} }

LossIdle == lw_pc = "idle" /\ lw_in = <<>> /\ lw_out = <<>>

\* The loss engine touches nothing but its own arguments and result.
LossFrame ==
    UNCHANGED <<dl_vars, mc_vars, st_vars, cf_vars, ir_vars, sn_vars,
                vk_vars, sf_vars, rs_vars, pp_vars>>

LossInit ==
    /\ lw_pc = "input"
    /\ lw_out = <<>>
    /\ \/ \E l \in 0..MaxLoss, n \in 0..MaxTranches :
            \E c \in [1..n -> Amounts \X SeniorityKeys] :
               lw_in = AllocateInput(l, n, c)
       \/ lw_in \in RunInputs

CallAllocateLossesWaterfall ==
    /\ lw_pc = "input"
    /\ lw_in.kind = "allocate"
    /\ lw_out' = [allocations |->
                    allocate_losses_waterfall(lw_in.total_loss, lw_in.tranches)]
    /\ lw_pc' = "allocated"
    /\ UNCHANGED lw_in
    /\ LossFrame

CallRunLossWaterfall ==
    /\ lw_pc = "input"
    /\ lw_in.kind = "run"
    /\ lw_out' = run_loss_waterfall(lw_in.loan_amount, lw_in.property_value,
                                    lw_in.split[1], lw_in.split[2], lw_in.split[3],
                                    lw_in.scenario, 430, DefaultBorrowerSpread,
                                    lw_in.accrued_months)
    /\ lw_pc' = "waterfall"
    /\ UNCHANGED lw_in
    /\ LossFrame

LossNext ==
    \/ CallAllocateLossesWaterfall
    \/ CallRunLossWaterfall

\* The tranches a finished call allocated over, and the loss it was given.
LossTranches ==
    IF lw_in.kind = "allocate" THEN lw_in.tranches
    ELSE << [name |-> "C-Piece", amount |-> PctOf(lw_in.loan_amount, lw_in.split[3]), seniority |-> 0],
            [name |-> "B-Piece", amount |-> PctOf(lw_in.loan_amount, lw_in.split[2]), seniority |-> 1],
            [name |-> "A-Piece", amount |-> PctOf(lw_in.loan_amount, lw_in.split[1]), seniority |-> 2] >>

LossGiven ==
    IF lw_in.kind = "allocate" THEN lw_in.total_loss ELSE lw_out.total_loss

LossDone == lw_pc \in {"allocated", "waterfall"}

\* The allocation the call returned for the tranche named n.
AllocNamed(n) ==
    LET A == lw_out.allocations
    IN  A[CHOOSE i \in 1..Len(A) : A[i].tranche_name = n]

(***************************************************************************)
(* C2.  After allocate_losses_waterfall (called directly or by              *)
(* run_loss_waterfall) the tranche losses sum to min(total_loss, sum of    *)
(* the tranche amounts), and every tranche has 0 <= loss_amount <=         *)
(* tranche_amount and recovery_amount = tranche_amount - loss_amount.      *)
(***************************************************************************)
C2_LossConserved ==
    LossDone =>
      LET A == lw_out.allocations
          T == LossTranches
      IN  /\ Len(A) = Len(T)
          /\ SeqSum([i \in 1..Len(A) |-> A[i].loss_amount])
               = Min(LossGiven, SeqSum([i \in 1..Len(T) |-> T[i].amount]))
          /\ \A i \in 1..Len(A) :
               /\ 0 <= A[i].loss_amount
               /\ A[i].loss_amount <= A[i].tranche_amount
               /\ A[i].recovery_amount = A[i].tranche_amount - A[i].loss_amount
          /\ \A i \in 1..Len(T) : AllocNamed(T[i].name).tranche_amount = T[i].amount

\* A direct call in which one tranche is wiped, another partly hit, and the
\* loss given exceeds no total: the cap and the remainder both acted.
C2_Witness ==
    /\ lw_pc = "allocated"
    /\ \E i, j \in 1..Len(lw_out.allocations) :
         /\ lw_out.allocations[i].loss_amount = lw_out.allocations[i].tranche_amount
         /\ lw_out.allocations[i].tranche_amount > 0
         /\ lw_out.allocations[j].loss_amount > 0
         /\ lw_out.allocations[j].loss_amount < lw_out.allocations[j].tranche_amount

(***************************************************************************)
(* C3.  Losses are absorbed junior to senior whatever the order of the     *)
(* input list: a tranche has a non-zero loss only if every tranche of      *)
(* lower seniority rank lost its full amount.  In run_loss_waterfall the   *)
(* B-piece is impaired only if the C-piece lost its full amount, and the   *)
(* A-piece has no loss (senior_impaired = FALSE) whenever the net loss     *)
(* does not exceed the B and C amounts together.                           *)
(***************************************************************************)
C3_JuniorFirst ==
    LossDone =>
      LET T == LossTranches
      IN  /\ \A i, j \in 1..Len(T) :
               (AllocNamed(T[i].name).loss_amount > 0
                  /\ SeniorityOf(T[j]) < SeniorityOf(T[i]))
               => AllocNamed(T[j].name).loss_amount = T[j].amount
          /\ lw_pc = "waterfall" =>
               /\ lw_out.mezz_impaired =>
                    AllocNamed("C-Piece").loss_amount = AllocNamed("C-Piece").tranche_amount
               /\ lw_out.total_loss <= AllocNamed("B-Piece").tranche_amount
                                        + AllocNamed("C-Piece").tranche_amount
                    => /\ ~lw_out.senior_impaired
                       /\ AllocNamed("A-Piece").loss_amount = 0

\* A direct call whose list is given senior first, where the loss reaches the
\* second most junior tranche.
C3_Witness ==
    /\ lw_pc = "allocated"
    /\ Len(lw_in.tranches) = 3
    /\ SeniorityOf(lw_in.tranches[1]) > SeniorityOf(lw_in.tranches[2])
    /\ SeniorityOf(lw_in.tranches[2]) > SeniorityOf(lw_in.tranches[3])
    /\ AllocNamed("T3").loss_amount > 0
    /\ AllocNamed("T2").loss_amount > 0
    /\ AllocNamed("T1").loss_amount = 0


(***************************************************************************)
(* cashflows.py : return metrics                                           *)
(***************************************************************************)
\* floor(a * b / c) for c > 0, computed without forming a * b.
MulDiv(a, b, c) == (a \div c) * b + ((a % c) * b) \div c

\* Monthly discounting grid of the IRR solver: a monthly rate is k / IrrGrid,
\* i.e. k tenths of a basis point of nominal annual rate per 12.
IrrGrid == 12000
IrrLow == -3000
IrrHigh == 3000
IrrCell == 250
IrrPpm == 1000000

Sign(x) == IF x > 0 THEN 1 ELSE IF x < 0 THEN -1 ELSE 0

\* Number of sign changes along the flows, zeros skipped.
RECURSIVE SignChangesFrom(_, _)
SignChangesFrom(last, s) ==
    IF s = <<>> THEN 0
    ELSE LET sg == Sign(Head(s))
         IN  IF sg = 0 THEN SignChangesFrom(last, Tail(s))
             ELSE (IF last # 0 /\ sg # last THEN 1 ELSE 0)
                    + SignChangesFrom(sg, Tail(s))

SignChanges(s) == SignChangesFrom(0, s)

\* Net present value at monthly rate k / IrrGrid, by Horner's rule from the
\* last flow back: v(t) = CF(t) + v(t+1) / (1 + rate).
RECURSIVE NpvFrom(_, _)
NpvFrom(s, k) ==
    IF Len(s) = 1 THEN s[1]
    ELSE s[1] + MulDiv(NpvFrom(Tail(s), k), IrrGrid, IrrGrid + k)

\* Bisection for the root inside a cell [lo, hi] whose ends have NPVs of
\* different sign; slo is the sign at lo.
RECURSIVE Bisect(_, _, _, _)
Bisect(s, lo, hi, slo) ==
    IF hi - lo <= 1 THEN (IF Sign(NpvFrom(s, hi)) = 0 THEN hi ELSE lo)
    ELSE LET mid == (lo + hi) \div 2
             smid == Sign(NpvFrom(s, mid))
         IN  IF smid = 0 THEN mid
             ELSE IF smid = slo THEN Bisect(s, mid, hi, slo)
                                ELSE Bisect(s, lo, mid, slo)

\* The cells of the grid that hold a root: the NPV changes sign across them.
RootCells(s) ==
    { c \in (IrrLow \div IrrCell)..((IrrHigh \div IrrCell) - 1) :
        LET a == Sign(NpvFrom(s, c * IrrCell))
            b == Sign(NpvFrom(s, (c + 1) * IrrCell))
        IN  a # b /\ a # 0 }

\* npf.irr: the real root of smallest magnitude; NaN when there is none.
MonthlyIrr(s) ==
    LET cells == RootCells(s)
    IN  IF cells = {} THEN [nan |-> TRUE, k |-> 0]
        ELSE LET roots == { Bisect(s, c * IrrCell, (c + 1) * IrrCell,
                                   Sign(NpvFrom(s, c * IrrCell))) : c \in cells }
                 best == CHOOSE r \in roots :
                           \A q \in roots : Abs(r) < Abs(q) \/ (Abs(r) = Abs(q) /\ r >= q)
             IN  [nan |-> FALSE, k |-> best]

\* (1 + monthly_irr) ** 12 - 1, in millionths.
RECURSIVE Compound(_, _, _)
Compound(x, k, n) ==
    IF n = 0 THEN x ELSE Compound(x + MulDiv(x, k, IrrGrid), k, n - 1)

Annualize(k) == Compound(IrrPpm, k, MonthsPerYear) - IrrPpm

\* _calc_irr: 0 when npf.irr raises (empty input) or returns NaN.
calc_irr(cashflows) ==
    IF Len(cashflows) = 0 \/ SignChanges(cashflows) = 0 THEN 0
    ELSE LET m == MonthlyIrr(cashflows)
         IN  IF m.nan THEN 0 ELSE Annualize(m.k)

\* A MOIC value is a float: a finite ratio, or float('inf').
Ratio(num, den) == [kind |-> "ratio", num |-> num, den |-> den]
Infinity == [kind |-> "inf"]

PositiveSum(s) == SeqSum(list([i \in 1..Len(s) |-> IF s[i] > 0 THEN s[i] ELSE 0]))
NegativeSum(s) == SeqSum(list([i \in 1..Len(s) |-> IF s[i] < 0 THEN s[i] ELSE 0]))

\* calculate_moic: returned / invested if invested else 0
calculate_moic(cashflows) ==
    LET invested == Abs(NegativeSum(cashflows))
        returned == PositiveSum(cashflows)
    IN  IF invested # 0 THEN Ratio(returned, invested) ELSE Ratio(0, 1)

(***************************************************************************)
(* deal.py : rates, amounts and fees of a Deal                             *)
(***************************************************************************)
Money(units) == units * MoneyScale

\* amount * rate / 12
MonthlyInterest(amount, rate) == MulDiv(amount, rate, RateDen * MonthsPerYear)

\* loan_amount * fee
FeeOf(deal, fee) == MulDiv(Money(deal.loan_amount), fee, RateDen)

get_borrower_rate(deal, sofr) ==
    IF deal.borrower_rate_type = "floating" THEN sofr + deal.borrower_spread
    ELSE IF deal.borrower_fixed_rate # 0 THEN deal.borrower_fixed_rate
         ELSE deal.borrower_spread

get_rate(tranche, sofr) ==
    IF tranche.rate_type = "floating" THEN sofr + tranche.spread ELSE tranche.spread

get_tranche_amount(deal, tranche) == PctOf(deal.loan_amount, tranche.percentage)

calculate_origination(deal) == FeeOf(deal, deal.fees.origination_fee)
calculate_exit(deal) == FeeOf(deal, deal.fees.exit_fee)
calculate_monthly_mgmt(deal) == FeeOf(deal, deal.fees.monthly_asset_mgmt_fee)
calculate_extension(deal) == FeeOf(deal, deal.fees.extension_fee)

\* The first tranche of the given type, as the loops and next(...) find it.
TrancheOfType(deal, ty) ==
    LET hits == {i \in 1..Len(deal.tranches) : deal.tranches[i].tranche_type = ty}
    IN  IF hits = {} THEN [none |-> TRUE]
        ELSE deal.tranches[CHOOSE i \in hits : \A j \in hits : i <= j]

IsNone(x) == "none" \in DOMAIN x

(***************************************************************************)
(* cashflows.py : generate_cashflows                                       *)
(***************************************************************************)
\* sofr_curve[m] for the 0-based month m
At(curve, m) == curve[m + 1]

PadWithFirst(sofr_curve, exit_month) ==
    IF Len(sofr_curve) < exit_month + 1
      THEN sofr_curve \o [i \in 1..(exit_month + 1 - Len(sofr_curve)) |-> sofr_curve[1]]
      ELSE sofr_curve

\* sofr_curve + [sofr_curve[-1]] * (total_months - len(sofr_curve))
PadCurve(sofr_curve, exit_month) ==
    IF Len(sofr_curve) < exit_month + 1
      THEN sofr_curve \o [i \in 1..(exit_month + 1 - Len(sofr_curve)) |->
                            sofr_curve[Len(sofr_curve)]]
      ELSE sofr_curve

\* sofr_curve[-1] on an empty list raises IndexError.
PadRaises(sofr_curve, exit_month) ==
    Len(sofr_curve) < exit_month + 1 /\ Len(sofr_curve) = 0

Months(exit_month) == list([i \in 1..(exit_month + 1) |-> i - 1])

Flows(p, i, f) == [principal |-> p, interest |-> i, fee |-> f]

TotalFlows(rows) ==
    list([j \in 1..Len(rows) |-> rows[j].principal + rows[j].interest + rows[j].fee])

CashflowResult(months, rows, irr, moic, profit) ==
    [months |-> months,
     principal_flows |-> list([j \in 1..Len(rows) |-> rows[j].principal]),
     interest_flows |-> list([j \in 1..Len(rows) |-> rows[j].interest]),
     fee_flows |-> list([j \in 1..Len(rows) |-> rows[j].fee]),
     total_flows |-> TotalFlows(rows),
     irr |-> irr, moic |-> moic, total_profit |-> profit]

BorrowerRow(deal, curve, exit_month, has_extension, m) ==
    IF m = 0
      THEN Flows(Money(deal.loan_amount), 0, -calculate_origination(deal))
    ELSE LET monthly_interest ==
               MonthlyInterest(Money(deal.loan_amount),
                               get_borrower_rate(deal, At(curve, m)))
         IN  IF m = exit_month
               THEN Flows(-Money(deal.loan_amount), -monthly_interest,
                          -calculate_exit(deal)
                            - (IF has_extension /\ m > deal.term_months
                                 THEN calculate_extension(deal) ELSE 0))
               ELSE Flows(0, -monthly_interest, -calculate_monthly_mgmt(deal))

calc_borrower_flows(deal, curve, exit_month, has_extension) ==
    LET months == Months(exit_month)
        rows == list([j \in 1..Len(months) |->
                   BorrowerRow(deal, curve, exit_month, has_extension, months[j])])
        total_flows == TotalFlows(rows)
        total_out == NegativeSum(total_flows)
        total_in == PositiveSum(total_flows)
    IN  CashflowResult(months, rows, 0,
                       IF total_in # 0 THEN Ratio(Abs(total_out), total_in)
                                       ELSE Ratio(0, 1),
                       0)

\* An accrual tranche that is paid its unpaid months of interest at the exit.
TrancheRowAccruing(deal, tranche, curve, exit_month, m) ==
    LET tranche_amount == get_tranche_amount(deal, tranche)
    IN  IF m = 0 THEN Flows(-tranche_amount, 0, 0)
        ELSE LET monthly_interest ==
                   MonthlyInterest(tranche_amount, get_rate(tranche, At(curve, m)))
             IN  IF m = exit_month
                   THEN Flows(tranche_amount,
                              IF tranche.is_current_pay THEN monthly_interest
                              ELSE monthly_interest * m, 0)
                 ELSE Flows(0, IF tranche.is_current_pay THEN monthly_interest ELSE 0, 0)

TrancheRow(deal, tranche, curve, exit_month, m) ==
    LET tranche_amount == get_tranche_amount(deal, tranche)
    IN  IF m = 0 THEN Flows(-tranche_amount, 0, 0)
        ELSE LET monthly_interest ==
                   MonthlyInterest(tranche_amount, get_rate(tranche, At(curve, m)))
             IN  IF m = exit_month THEN Flows(tranche_amount, monthly_interest, 0)
                 ELSE Flows(0, IF tranche.is_current_pay THEN monthly_interest ELSE 0, 0)

\* Precondition: exit_month >= 0 (total_flows[0] raises IndexError otherwise).
calc_tranche_flows(deal, tranche, curve, exit_month, has_extension) ==
    LET months == Months(exit_month)
        rows == list([j \in 1..Len(months) |->
                   TrancheRow(deal, tranche, curve, exit_month, months[j])])
        total_flows == TotalFlows(rows)
        total_invested == Abs(total_flows[1])
        total_returned == SeqSum(Tail(total_flows))
    IN  CashflowResult(months, rows, calc_irr(total_flows),
                       IF total_invested # 0 THEN Ratio(total_returned, total_invested)
                                             ELSE Ratio(0, 1),
                       total_returned - total_invested)

\* The cost of every tranche, the C-piece included, whatever the mode.
RECURSIVE TrancheCostAll(_, _, _, _)
TrancheCostAll(deal, ts, sofr, skip_c) ==
    IF ts = <<>> THEN 0
    ELSE MonthlyInterest(get_tranche_amount(deal, Head(ts)), get_rate(Head(ts), sofr))
           + TrancheCostAll(deal, Tail(ts), sofr, skip_c)

\* sum(get_tranche_amount(t) * t.get_rate(sofr) / 12 for t in tranches [if not C])
RECURSIVE TrancheCost(_, _, _, _)
TrancheCost(deal, ts, sofr, skip_c) ==
    IF ts = <<>> THEN 0
    ELSE (IF skip_c /\ Head(ts).tranche_type = "C" THEN 0
          ELSE MonthlyInterest(get_tranche_amount(deal, Head(ts)),
                               get_rate(Head(ts), sofr)))
           + TrancheCost(deal, Tail(ts), sofr, skip_c)

SponsorRow(deal, curve, exit_month, has_extension, is_principal, m) ==
    LET c_tranche == TrancheOfType(deal, "C")
        c_amount == IF ~IsNone(c_tranche) /\ is_principal
                      THEN get_tranche_amount(deal, c_tranche) ELSE 0
    IN  IF m = 0 THEN Flows(-c_amount, 0, calculate_origination(deal))
        ELSE LET sofr == At(curve, m)
                 c_interest ==
                   IF is_principal
                     THEN MonthlyInterest(c_amount,
                            IF ~IsNone(c_tranche) THEN get_rate(c_tranche, sofr) ELSE 0)
                     ELSE 0
                 borrower_interest ==
                   MonthlyInterest(Money(deal.loan_amount), get_borrower_rate(deal, sofr))
                 spread_income ==
                   IF is_principal
                     THEN borrower_interest
                            - TrancheCost(deal, deal.tranches, sofr, TRUE) - c_interest
                     ELSE borrower_interest
                            - TrancheCost(deal, deal.tranches, sofr, FALSE)
             IN  IF m = exit_month
                   THEN Flows(c_amount, c_interest + spread_income,
                              calculate_exit(deal)
                                + (IF has_extension THEN calculate_extension(deal) ELSE 0))
                   ELSE Flows(0, c_interest + spread_income, calculate_monthly_mgmt(deal))

\* moic = float('inf') when total_invested is not > 0
MoicNoInvestment == Infinity

\* Precondition: exit_month >= 0 (total_flows[0] raises IndexError otherwise).
calc_sponsor_flows(deal, curve, exit_month, has_extension, is_principal) ==
    LET months == Months(exit_month)
        rows == list([j \in 1..Len(months) |->
                   SponsorRow(deal, curve, exit_month, has_extension, is_principal,
                              months[j])])
        total_flows == TotalFlows(rows)
        total_invested == IF total_flows[1] < 0 THEN Abs(total_flows[1]) ELSE 0
        total_returned == PositiveSum(total_flows)
    IN  CashflowResult(months, rows, calc_irr(total_flows),
                       IF total_invested > 0 THEN Ratio(total_returned, total_invested)
                                             ELSE MoicNoInvestment,
                       SeqSum(total_flows))

\* The keys of the dictionary generate_cashflows returns.
ResultKeys(deal) ==
    {"borrower", "sponsor"}
      \cup {deal.tranches[i].tranche_type : i \in 1..Len(deal.tranches)}

\* results[tranche.tranche_type.value] = ...: a later tranche of the same
\* type overwrites an earlier one.
LastOfType(deal, ty) ==
    deal.tranches[CHOOSE i \in 1..Len(deal.tranches) :
                    /\ deal.tranches[i].tranche_type = ty
                    /\ \A j \in 1..Len(deal.tranches) :
                         deal.tranches[j].tranche_type = ty => j <= i]

generate_cashflows(deal, sofr_curve, exit_month, has_extension, sponsor_is_principal) ==
    IF PadRaises(sofr_curve, exit_month) \/ exit_month < 0
      THEN [raised |-> "IndexError"]
      ELSE LET curve == PadCurve(sofr_curve, exit_month)
           IN  [raised |-> "",
                results |->
                  [k \in ResultKeys(deal) |->
                     IF k = "borrower"
                       THEN calc_borrower_flows(deal, curve, exit_month, has_extension)
                     ELSE IF k = "sponsor"
                       THEN calc_sponsor_flows(deal, curve, exit_month, has_extension,
                                               sponsor_is_principal)
                     ELSE calc_tranche_flows(deal, LastOfType(deal, k), curve,
                                             exit_month, has_extension)]]

(***************************************************************************)
(* deal.py : FundTerms ; cashflows.py : generate_fund_cashflows            *)
(***************************************************************************)
\* (1 + hurdle_rate) ** (holding_months / 12) - 1 in millionths, for holding
\* periods of 0..12 months and the hurdle rates of the default fund terms.
HurdleTable(hurdle_rate) ==
    IF hurdle_rate = 800
      THEN <<0, 6434, 12909, 19427, 25986, 32587, 39230, 45917, 52646, 59419,
             66235, 73096, 80000>>
    ELSE IF hurdle_rate = 1000
      THEN <<0, 7974, 16012, 24114, 32280, 40512, 48809, 57172, 65602, 74099,
             82665, 91298, 100000>>
    ELSE [m \in 1..(MonthsPerYear + 1) |-> 0]

annualized_hurdle(fund_terms, holding_months) ==
    HurdleTable(fund_terms.hurdle_rate)[holding_months + 1]

\* The annual fee charged every month.
AnnualAumFee(fund_terms, invested_capital) ==
    MulDiv(invested_capital, fund_terms.aum_fee_pct, RateDen)

\* calculate_annual_aum_fee(invested_capital) / 12
calculate_monthly_aum_fee(fund_terms, invested_capital) ==
    MulDiv(invested_capital, fund_terms.aum_fee_pct, RateDen * MonthsPerYear)

\* The promote taken on the whole profit, the hurdle forgotten.
PromoteWithoutHurdle(fund_terms, invested_capital, total_return, holding_months) ==
    MulDiv(Max(0, total_return - invested_capital), fund_terms.promote_pct, PctDen)

calculate_promote(fund_terms, invested_capital, total_return, holding_months) ==
    LET hurdle_amount == MulDiv(invested_capital \div 1000,
                                annualized_hurdle(fund_terms, holding_months), 1000)
        profit == total_return - invested_capital
        excess_profit == Max(0, profit - hurdle_amount)
    IN  MulDiv(excess_profit, fund_terms.promote_pct, PctDen)

calc_fee_allocation_flows(deal, tranche, exit_month, has_extension) ==
    list([j \in 1..(exit_month + 1) |->
            IF j - 1 = 0
              THEN MulDiv(calculate_origination(deal), tranche.fee_allocation_pct, PctDen)
            ELSE IF j - 1 = exit_month
              THEN MulDiv(calculate_exit(deal)
                            + (IF has_extension THEN calculate_extension(deal) ELSE 0),
                          tranche.fee_allocation_pct, PctDen)
            ELSE 0])

\* The A-piece of generate_fund_cashflows: raw tranche flows plus its share
\* of the fees, IRR and profit recomputed (the MOIC is left as it was).
calc_a_result(deal, a_tranche, curve, exit_month, has_extension) ==
    LET a_result == calc_tranche_flows(deal, a_tranche, curve, exit_month, has_extension)
        a_fee_alloc == calc_fee_allocation_flows(deal, a_tranche, exit_month, has_extension)
        fee_flows == list([i \in 1..Len(a_result.fee_flows) |->
                             a_result.fee_flows[i] + a_fee_alloc[i]])
        total_flows == list([i \in 1..Len(fee_flows) |->
                               a_result.principal_flows[i] + a_result.interest_flows[i]
                                 + fee_flows[i]])
    IN  [a_result EXCEPT !.fee_flows = fee_flows, !.total_flows = total_flows,
                         !.irr = calc_irr(total_flows),
                         !.total_profit = SeqSum(total_flows)]

\* The management fee credited to the LP instead of charged.
LpRowFeeCredited(tranche, fund_terms, tranche_amount, lp_capital, curve, exit_month, m) ==
    IF m = 0 THEN Flows(-lp_capital, 0, 0)
    ELSE LET lp_interest ==
               MonthlyInterest(lp_capital, get_rate(tranche, At(curve, m)))
             monthly_aum == calculate_monthly_aum_fee(fund_terms, lp_capital)
         IN  IF m = exit_month THEN Flows(lp_capital, lp_interest, monthly_aum)
             ELSE Flows(0, lp_interest, monthly_aum)

LpRow(tranche, fund_terms, tranche_amount, lp_capital, curve, exit_month, m) ==
    IF m = 0 THEN Flows(-lp_capital, 0, 0)
    ELSE LET full_interest ==
               MonthlyInterest(tranche_amount, get_rate(tranche, At(curve, m)))
             lp_share == IF tranche_amount > 0
                           THEN lp_capital \div (tranche_amount \div PctDen)
                           ELSE 0
             lp_interest == MulDiv(full_interest, lp_share, PctDen)
             monthly_aum == calculate_monthly_aum_fee(fund_terms, lp_capital)
         IN  IF m = exit_month THEN Flows(lp_capital, lp_interest, -monthly_aum)
             ELSE Flows(0, IF tranche.is_current_pay THEN lp_interest ELSE 0,
                        -monthly_aum)

\* Precondition: exit_month >= 0.
calc_fund_flows(deal, tranche, fund_terms, curve, exit_month, has_extension, coinvest_pct) ==
    LET months == Months(exit_month)
        tranche_amount == get_tranche_amount(deal, tranche)
        coinvest_amount == MulDiv(tranche_amount, coinvest_pct, PctDen)
        lp_capital == tranche_amount - coinvest_amount
        rows == list([j \in 1..Len(months) |->
                   LpRow(tranche, fund_terms, tranche_amount, lp_capital, curve,
                         exit_month, months[j])])
        aum_fees_collected == list([j \in 1..Len(rows) |-> -rows[j].fee])
        fee_allocation_flows ==
          calc_fee_allocation_flows(deal, tranche, exit_month, has_extension)
        cumulative_lp_return == SeqSum(list([j \in 1..Len(rows) |-> rows[j].interest]))
        promote_at_exit ==
          calculate_promote(fund_terms, lp_capital, lp_capital + cumulative_lp_return,
                            exit_month)
        raw_flows == TotalFlows(rows)
        lp_total_flows ==
          IF promote_at_exit > 0
            THEN [raw_flows EXCEPT ![Len(raw_flows)] = @ - promote_at_exit]
            ELSE raw_flows
        lp_result == [CashflowResult(months, rows, calc_irr(lp_total_flows),
                                     calculate_moic(lp_total_flows),
                                     SeqSum(lp_total_flows))
                        EXCEPT !.total_flows = lp_total_flows]
    IN  [lp_cashflows |-> lp_result,
         aum_fees_collected |-> aum_fees_collected,
         promote_at_exit |-> promote_at_exit,
         fee_allocation_income |-> fee_allocation_flows,
         total_aum_fees |-> SeqSum(aum_fees_collected),
         total_fee_allocation |-> SeqSum(fee_allocation_flows),
         aggregator_total_income |->
           SeqSum(aum_fees_collected) + promote_at_exit + SeqSum(fee_allocation_flows)]

CoinvestRow(deal, c_tranche, tranche_amount, coinvest_amount, curve, exit_month, m) ==
    IF m = 0 THEN Flows(-coinvest_amount, 0, 0)
    ELSE LET full_interest ==
               MonthlyInterest(tranche_amount, get_rate(c_tranche, At(curve, m)))
             coinvest_interest ==
               MulDiv(full_interest, deal.aggregator_coinvest_pct, PctDen)
         IN  IF m = exit_month THEN Flows(coinvest_amount, coinvest_interest, 0)
             ELSE Flows(0, IF c_tranche.is_current_pay THEN coinvest_interest ELSE 0, 0)

calc_aggregator_coinvest_flows(deal, c_tranche, curve, exit_month) ==
    LET months == Months(exit_month)
        tranche_amount == get_tranche_amount(deal, c_tranche)
        coinvest_amount == MulDiv(tranche_amount, deal.aggregator_coinvest_pct, PctDen)
        rows == list([j \in 1..Len(months) |->
                   IF coinvest_amount = 0 THEN Flows(0, 0, 0)
                   ELSE CoinvestRow(deal, c_tranche, tranche_amount, coinvest_amount,
                                    curve, exit_month, months[j])])
        total_flows == TotalFlows(rows)
    IN  IF coinvest_amount = 0
          THEN CashflowResult(months, rows, 0, Ratio(0, 1), 0)
          ELSE CashflowResult(months, rows, calc_irr(total_flows),
                              calculate_moic(total_flows), SeqSum(total_flows))

calc_aggregator_summary(deal, fund_results, curve, exit_month, has_extension) ==
    LET has_b == "B_fund" \in DOMAIN fund_results
        has_c == "C_fund" \in DOMAIN fund_results
        b_aum == IF has_b THEN fund_results["B_fund"].total_aum_fees ELSE 0
        b_promote == IF has_b THEN fund_results["B_fund"].promote_at_exit ELSE 0
        b_fee_alloc == IF has_b THEN fund_results["B_fund"].total_fee_allocation ELSE 0
        c_aum == IF has_c THEN fund_results["C_fund"].total_aum_fees ELSE 0
        c_promote == IF has_c THEN fund_results["C_fund"].promote_at_exit ELSE 0
        c_fee_alloc == IF has_c THEN fund_results["C_fund"].total_fee_allocation ELSE 0
        c_tranche == TrancheOfType(deal, "C")
        coinvest == IF IsNone(c_tranche)
                      THEN CashflowResult(<<>>, <<>>, 0, Ratio(0, 1), 0)
                      ELSE calc_aggregator_coinvest_flows(deal, c_tranche, curve, exit_month)
        coinvest_amount ==
          IF IsNone(c_tranche) THEN 0
          ELSE MulDiv(get_tranche_amount(deal, c_tranche),
                      deal.aggregator_coinvest_pct, PctDen)
        total_tranche_fee_alloc ==
          SeqSum([i \in 1..Len(deal.tranches) |-> deal.tranches[i].fee_allocation_pct])
        aggregator_fee_alloc_pct == Max(0, PctDen - total_tranche_fee_alloc)
        total_fees == calculate_origination(deal) + calculate_exit(deal)
                        + (IF has_extension THEN calculate_extension(deal) ELSE 0)
        aggregator_direct_fee == MulDiv(total_fees, aggregator_fee_alloc_pct, PctDen)
        b_total == b_aum + b_promote + b_fee_alloc
        c_total == c_aum + c_promote + c_fee_alloc + coinvest.total_profit
    IN  [b_fund_aum_fees |-> b_aum, b_fund_promote |-> b_promote,
         b_fund_fee_allocation |-> b_fee_alloc, b_fund_total |-> b_total,
         c_fund_aum_fees |-> c_aum, c_fund_promote |-> c_promote,
         c_fund_fee_allocation |-> c_fee_alloc,
         c_fund_coinvest_returns |-> coinvest.total_profit, c_fund_total |-> c_total,
         aggregator_direct_fee_allocation |-> aggregator_direct_fee,
         total_aum_fees |-> b_aum + c_aum, total_promote |-> b_promote + c_promote,
         total_fee_allocation |-> b_fee_alloc + c_fee_alloc + aggregator_direct_fee,
         total_coinvest_returns |-> coinvest.total_profit,
         grand_total |-> b_total + c_total + aggregator_direct_fee,
         coinvest_amount |-> coinvest_amount, coinvest_irr |-> coinvest.irr,
         coinvest_moic |-> coinvest.moic]

\* The fund entries of the result dictionary, before the aggregator summary.
FundKeys(deal) ==
    {"borrower"}
      \cup (IF IsNone(TrancheOfType(deal, "A")) THEN {} ELSE {"A"})
      \cup (IF IsNone(TrancheOfType(deal, "B")) THEN {} ELSE {"B_fund"})
      \cup (IF IsNone(TrancheOfType(deal, "C")) THEN {} ELSE {"C_fund"})

FundEntries(deal, curve, exit_month, has_extension) ==
    [k \in FundKeys(deal) |->
       IF k = "borrower" THEN calc_borrower_flows(deal, curve, exit_month, has_extension)
       ELSE IF k = "A"
         THEN calc_a_result(deal, TrancheOfType(deal, "A"), curve, exit_month,
                            has_extension)
       ELSE IF k = "B_fund"
         THEN calc_fund_flows(deal, TrancheOfType(deal, "B"), deal.b_fund_terms, curve,
                              exit_month, has_extension, 0)
       ELSE calc_fund_flows(deal, TrancheOfType(deal, "C"), deal.c_fund_terms, curve,
                            exit_month, has_extension, deal.aggregator_coinvest_pct)]

\* Precondition: exit_month >= 0.
generate_fund_cashflows(deal, sofr_curve, exit_month, has_extension) ==
    IF PadRaises(sofr_curve, exit_month)
      THEN [raised |-> "IndexError"]
      ELSE LET curve == PadCurve(sofr_curve, exit_month)
               entries == FundEntries(deal, curve, exit_month, has_extension)
           IN  [raised |-> "",
                results |->
                  [k \in DOMAIN entries \cup {"aggregator"} |->
                     IF k = "aggregator"
                       THEN calc_aggregator_summary(deal, entries, curve, exit_month,
                                                    has_extension)
                       ELSE entries[k]]]

(***************************************************************************)
(* Calls of generate_cashflows and generate_fund_cashflows                 *)
(***************************************************************************)
MaxExit == 3
MaxCurveLen == 3
SofrRates == {300, 500}
ShortTerm == 2

\* Rate paths of every length up to MaxCurveLen, the empty one included.
Curves == UNION { [1..n -> SofrRates] : n \in 0..MaxCurveLen }

\* The default stack with 10% of the fees allocated to the A-piece and 20% to
\* the B-piece (fee_allocation_pct, in hundredths), and a B-piece at SOFR + 4%,
\* which earns less than the B fund's hurdle on the lower rate path.
FeeAllocTranches ==
    << Tranche("A", 70, "floating", 200, TRUE, 10),
       Tranche("B", 20, "floating", 400, TRUE, 20),
       Tranche("C", 10, "fixed", 1200, TRUE, 0) >>

\* The default stack with an accrual (non-current-pay) B-piece.
AccrualTranches ==
    << Tranche("A", 70, "floating", 200, TRUE, 0),
       Tranche("B", 20, "floating", 600, FALSE, 0),
       Tranche("C", 10, "fixed", 1200, TRUE, 0) >>

\* The default A/B/C stack, a stack whose C-piece is empty, a stack without a
\* C-piece, the stack with fee allocations and the stack with an accrual piece.
CfStacks ==
    { DefaultTranches(70, 20, 10), DefaultTranches(80, 20, 0),
      SubSeq(DefaultTranches(80, 20, 0), 1, 2), FeeAllocTranches, AccrualTranches }

CfDeals ==
    { Deal(4, 2, term, ts,
           FeeStructure(DefaultOriginationFee, DefaultExitFee,
                        DefaultMonthlyMgmtFee, DefaultExtensionFee),
           DefaultBorrowerSpread) :
        term \in {ShortTerm, DefaultTermMonths}, ts \in CfStacks }

CfInputs ==
    { [fn |-> "generate_cashflows", deal |-> d, sofr_curve |-> c, exit_month |-> e,
       has_extension |-> x, sponsor_is_principal |-> sp] :
        d \in CfDeals, c \in Curves, e \in -1..MaxExit, x \in BOOLEAN, sp \in BOOLEAN }
    \cup
    { [fn |-> "generate_fund_cashflows", deal |-> d, sofr_curve |-> c, exit_month |-> e,
       has_extension |-> x] :
        d \in CfDeals, c \in Curves, e \in 0..MaxExit, x \in BOOLEAN }

\* The cashflow engine is a set of pure functions of its arguments.
CfFrame ==
    UNCHANGED <<dl_vars, lw_vars, mc_vars, st_vars, ir_vars, sn_vars,
                vk_vars, sf_vars, rs_vars, pp_vars>>

CfInit == cf_pc = "input" /\ cf_args \in CfInputs /\ cf_out = <<>>

CallGenerateCashflows ==
    /\ cf_pc = "input"
    /\ cf_args.fn = "generate_cashflows"
    /\ cf_out' = generate_cashflows(cf_args.deal, cf_args.sofr_curve, cf_args.exit_month,
                                    cf_args.has_extension, cf_args.sponsor_is_principal)
    /\ cf_pc' = "returned"
    /\ UNCHANGED cf_args
    /\ CfFrame

CallGenerateFundCashflows ==
    /\ cf_pc = "input"
    /\ cf_args.fn = "generate_fund_cashflows"
    /\ cf_out' = generate_fund_cashflows(cf_args.deal, cf_args.sofr_curve,
                                         cf_args.exit_month, cf_args.has_extension)
    /\ cf_pc' = "returned"
    /\ UNCHANGED cf_args
    /\ CfFrame

CfNext ==
    \/ CallGenerateCashflows
    \/ CallGenerateFundCashflows

\* The path written out to exit_month + 1 entries, one repeated last value
\* at a time.
RECURSIVE ExtendByLast(_, _)
ExtendByLast(path, n) ==
    IF Len(path) >= n THEN path
    ELSE ExtendByLast(Append(path, path[Len(path)]), n)

CfShortPath ==
    /\ cf_pc = "returned"
    /\ Len(cf_args.sofr_curve) > 0
    /\ Len(cf_args.sofr_curve) < cf_args.exit_month + 1

CfOnExtendedPath ==
    LET full == ExtendByLast(cf_args.sofr_curve, cf_args.exit_month + 1)
    IN  IF cf_args.fn = "generate_cashflows"
          THEN generate_cashflows(cf_args.deal, full, cf_args.exit_month,
                                  cf_args.has_extension, cf_args.sponsor_is_principal)
          ELSE generate_fund_cashflows(cf_args.deal, full, cf_args.exit_month,
                                       cf_args.has_extension)

\* C9: for a rate path shorter than exit_month + 1, generate_cashflows and
\* generate_fund_cashflows return, without raising, exactly what they return
\* for the path extended to exit_month + 1 entries by repeating its last value.
C9_PaddingIsLastValue ==
    CfShortPath => cf_out.raised = "" /\ cf_out = CfOnExtendedPath

\* A fund call that exits at month MaxExit on a two-entry path whose entries
\* differ: months 2 onward take the padded value.
C9_Witness ==
    /\ CfShortPath
    /\ cf_args.fn = "generate_fund_cashflows"
    /\ cf_args.exit_month = MaxExit
    /\ Len(cf_args.sofr_curve) = 2
    /\ cf_args.sofr_curve[1] # cf_args.sofr_curve[2]
    /\ "C_fund" \in DOMAIN cf_out.results
    /\ cf_out.results["C_fund"].promote_at_exit >= 0

CfAggregatorCall ==
    /\ cf_pc = "returned"
    /\ cf_args.fn = "generate_cashflows"
    /\ ~cf_args.sponsor_is_principal
    /\ cf_args.exit_month >= 0
    /\ Len(cf_args.sofr_curve) > 0

IsNotApplicableMarker(moic) == moic.kind \notin {"ratio", "inf"}

\* C10: in aggregator mode generate_cashflows returns without raising, every
\* sponsor principal flow is 0, and the sponsor MOIC is an explicit "not
\* applicable" marker, not a number.
C10_AggregatorMoicNotApplicable ==
    CfAggregatorCall =>
        /\ cf_out.raised = ""
        /\ \A i \in 1..Len(cf_out.results["sponsor"].principal_flows) :
              cf_out.results["sponsor"].principal_flows[i] = 0
        /\ IsNotApplicableMarker(cf_out.results["sponsor"].moic)

\* What the code does hold to in aggregator mode: no raise, no principal.
C10_AggregatorNoCapital ==
    CfAggregatorCall =>
        /\ cf_out.raised = ""
        /\ \A i \in 1..Len(cf_out.results["sponsor"].principal_flows) :
              cf_out.results["sponsor"].principal_flows[i] = 0
        /\ cf_out.results["sponsor"].moic = Infinity

(***************************************************************************)
(* Sponsor flows, month by month                                           *)
(***************************************************************************)
CfSponsorCall ==
    /\ cf_pc = "returned"
    /\ cf_args.fn = "generate_cashflows"
    /\ cf_out.raised = ""

\* Deal.get_aggregator_fee_allocation: max(0, 1 - sum of fee_allocation_pct)
get_aggregator_fee_allocation(deal) ==
    Max(0, PctDen - SeqSum(list([i \in 1..Len(deal.tranches) |->
                                   deal.tranches[i].fee_allocation_pct])))

\* The deal's fee of month m: origination at 0, exit plus extension at the
\* exit month, the monthly management fee in between.
DealFeeOfMonth(deal, exit_month, has_extension, m) ==
    IF m = 0 THEN calculate_origination(deal)
    ELSE IF m = exit_month
      THEN calculate_exit(deal) + (IF has_extension THEN calculate_extension(deal) ELSE 0)
    ELSE calculate_monthly_mgmt(deal)

\* C11: the sponsor's fee flow of every month is the deal's fee of that month
\* times the sponsor's fee-allocation share (1 - sum of the tranches'
\* fee_allocation_pct): a share given to a tranche is not sponsor income.
C11_SponsorFeeIsOwnShare ==
    CfSponsorCall =>
        \A m \in 0..cf_args.exit_month :
            cf_out.results["sponsor"].fee_flows[m + 1] =
                MulDiv(DealFeeOfMonth(cf_args.deal, cf_args.exit_month,
                                      cf_args.has_extension, m),
                       get_aggregator_fee_allocation(cf_args.deal), PctDen)

\* amount * rate / 12 of an amount that is a whole number of hundredths of
\* the loan unit: the division is exact.
InterestOn(amount, rate) == (amount \div (RateDen * MonthsPerYear)) * rate

\* The interest of one month on the tranches whose type is in `types`.
InterestOfTypes(deal, types, sofr) ==
    SeqSum(list([i \in 1..Len(deal.tranches) |->
        IF deal.tranches[i].tranche_type \in types
          THEN InterestOn(get_tranche_amount(deal, deal.tranches[i]),
                          get_rate(deal.tranches[i], sofr))
          ELSE 0]))

BorrowerInterestOf(deal, sofr) ==
    InterestOn(Money(deal.loan_amount), get_borrower_rate(deal, sofr))

\* The padded rate of month m of the call in cf_args.
CfSofr(m) == At(PadCurve(cf_args.sofr_curve, cf_args.exit_month), m)

\* C12 as stated: in every month m >= 1 the sponsor's interest flow is, in
\* principal mode, (borrower interest - interest cost of A and B) plus the
\* interest of its own C tranche; in aggregator mode, borrower interest minus
\* the interest cost of all tranches.
C12_InterestPlusOwnTranche ==
    CfSponsorCall =>
        \A m \in 1..cf_args.exit_month :
            cf_out.results["sponsor"].interest_flows[m + 1] =
                IF cf_args.sponsor_is_principal
                  THEN BorrowerInterestOf(cf_args.deal, CfSofr(m))
                         - InterestOfTypes(cf_args.deal, {"A", "B"}, CfSofr(m))
                         + InterestOfTypes(cf_args.deal, {"C"}, CfSofr(m))
                  ELSE BorrowerInterestOf(cf_args.deal, CfSofr(m))
                         - InterestOfTypes(cf_args.deal, {"A", "B", "C"}, CfSofr(m))

\* C12 amended: in every month m >= 1 the sponsor's interest flow is, in
\* principal mode, borrower interest minus the interest cost of A and B (the
\* own C interest is part of that remainder, it is not added to it); in
\* aggregator mode, borrower interest minus the interest cost of all tranches.
C12_InterestIsRemainder ==
    CfSponsorCall =>
        \A m \in 1..cf_args.exit_month :
            cf_out.results["sponsor"].interest_flows[m + 1] =
                BorrowerInterestOf(cf_args.deal, CfSofr(m))
                  - InterestOfTypes(cf_args.deal,
                                    IF cf_args.sponsor_is_principal THEN {"A", "B"}
                                                                    ELSE {"A", "B", "C"},
                                    CfSofr(m))

\* A principal-mode call over several months on a stack with a C-piece: the
\* sponsor's interest is larger than what an aggregator would keep.
C12_Witness ==
    /\ CfSponsorCall
    /\ cf_args.sponsor_is_principal
    /\ cf_args.exit_month >= 2
    /\ InterestOfTypes(cf_args.deal, {"C"}, CfSofr(1)) > 0
    /\ cf_out.results["sponsor"].interest_flows[2] >
          BorrowerInterestOf(cf_args.deal, CfSofr(1))
            - InterestOfTypes(cf_args.deal, {"A", "B", "C"}, CfSofr(1))

(***************************************************************************)
(* Fund tranches: management fee, carry, LP-net return                     *)
(***************************************************************************)
CfFundCall ==
    /\ cf_pc = "returned"
    /\ cf_args.fn = "generate_fund_cashflows"
    /\ cf_out.raised = ""

\* The fund entries of the returned dictionary.
CfFunds == DOMAIN cf_out.results \cap {"B_fund", "C_fund"}

CfFundTranche(k) == TrancheOfType(cf_args.deal, IF k = "B_fund" THEN "B" ELSE "C")

CfFundTerms(k) ==
    IF k = "B_fund" THEN cf_args.deal.b_fund_terms ELSE cf_args.deal.c_fund_terms

\* LP capital: the tranche amount less the co-invest share, which only the
\* C fund has.
CfLpCapital(k) ==
    LET amount == get_tranche_amount(cf_args.deal, CfFundTranche(k))
    IN  IF k = "C_fund"
          THEN amount - (amount \div PctDen) * cf_args.deal.aggregator_coinvest_pct
          ELSE amount

\* LP_capital * annual_fee_rate / 12
CfMonthlyFee(k) ==
    (CfLpCapital(k) * CfFundTerms(k).aum_fee_pct) \div (RateDen * MonthsPerYear)

\* Month m of fund k: the LP pays `fee`, the manager collects `fee`, and the
\* LP's total flow is principal plus interest less the fee (less the carry
\* as well in the exit month).
CfFeeCharged(k, m, fee) ==
    LET lp == cf_out.results[k].lp_cashflows
    IN  /\ lp.fee_flows[m + 1] = -fee
        /\ cf_out.results[k].aum_fees_collected[m + 1] = fee
        /\ lp.total_flows[m + 1] =
              lp.principal_flows[m + 1] + lp.interest_flows[m + 1] - fee
                - (IF m = cf_args.exit_month THEN cf_out.results[k].promote_at_exit
                                             ELSE 0)

\* C13 as stated: in each month of the horizon, month 0 included, the LP's
\* cashflow is reduced by LP_capital * annual_fee_rate / 12 and the manager
\* collects the amount deducted.
C13_FeeEveryMonth ==
    CfFundCall =>
        \A k \in CfFunds : \A m \in 0..cf_args.exit_month :
            CfFeeCharged(k, m, CfMonthlyFee(k))

\* C13 amended: in each month 1..exit_month the LP's cashflow is reduced by
\* LP_capital * annual_fee_rate / 12 and the manager collects the amount
\* deducted; in month 0, when the capital is paid in, no fee is charged.
C13_FeeEveryMonthAfterFunding ==
    CfFundCall =>
        \A k \in CfFunds :
            /\ CfFeeCharged(k, 0, 0)
            /\ \A m \in 1..cf_args.exit_month : CfFeeCharged(k, m, CfMonthlyFee(k))

\* A fund call over several months whose C fund has co-invest capital and
\* pays a positive fee.
C13_Witness ==
    /\ CfFundCall
    /\ cf_args.exit_month >= 2
    /\ "C_fund" \in CfFunds /\ "B_fund" \in CfFunds
    /\ CfLpCapital("C_fund") > 0
    /\ CfLpCapital("C_fund") < get_tranche_amount(cf_args.deal, CfFundTranche("C_fund"))
    /\ cf_out.results["C_fund"].aum_fees_collected[2] > 0
    /\ cf_out.results["C_fund"].aum_fees_collected[1] = 0

\* LP_capital * ((1 + hurdle) ** (months / 12) - 1)
CfHurdleAmount(k) ==
    ((CfLpCapital(k) \div 1000)
       * annualized_hurdle(CfFundTerms(k), cf_args.exit_month)) \div 1000

\* carry_rate * max(0, (LP_return - LP_capital) - hurdle amount), LP_return
\* being the capital plus the interest the LP received.
CfCarry(k) ==
    LET profit == SeqSum(cf_out.results[k].lp_cashflows.interest_flows)
    IN  (Max(0, profit - CfHurdleAmount(k)) * CfFundTerms(k).promote_pct) \div PctDen

\* C14: at exit the carry is carry_rate * max(0, profit - hurdle amount) and
\* never negative; exactly that amount leaves the LP's final total flow and is
\* credited to the manager (promote_at_exit, part of aggregator_total_income
\* and of the aggregator summary), so the LP's final flow plus the carry is
\* its final flow before carry.
C14_CarryAtExit ==
    CfFundCall =>
        \A k \in CfFunds :
            LET r == cf_out.results[k]
                lp == r.lp_cashflows
                n == cf_args.exit_month + 1
                summary == cf_out.results["aggregator"]
            IN  /\ r.promote_at_exit = CfCarry(k)
                /\ r.promote_at_exit >= 0
                /\ lp.total_flows[n] + r.promote_at_exit =
                      lp.principal_flows[n] + lp.interest_flows[n] + lp.fee_flows[n]
                /\ r.aggregator_total_income =
                      r.total_aum_fees + CfCarry(k) + r.total_fee_allocation
                /\ (IF k = "B_fund" THEN summary.b_fund_promote
                                    ELSE summary.c_fund_promote) = CfCarry(k)

\* A fund call whose C fund clears its hurdle and pays carry while the B fund
\* earns a profit below its hurdle and pays none.
C14_Witness ==
    /\ CfFundCall
    /\ cf_args.exit_month >= 2
    /\ {"B_fund", "C_fund"} \subseteq CfFunds
    /\ cf_out.results["C_fund"].promote_at_exit > 0
    /\ cf_out.results["B_fund"].promote_at_exit = 0
    /\ SeqSum(cf_out.results["B_fund"].lp_cashflows.interest_flows) > 0
    /\ cf_out.results["C_fund"].lp_cashflows.total_flows[cf_args.exit_month + 1]
          < cf_out.results["C_fund"].lp_cashflows.principal_flows[cf_args.exit_month + 1]
              + cf_out.results["C_fund"].lp_cashflows.interest_flows[cf_args.exit_month + 1]
              + cf_out.results["C_fund"].lp_cashflows.fee_flows[cf_args.exit_month + 1]

\* The gross IRR of the fund's tranche: what generate_cashflows returns for
\* it on the same deal, rate path and exit month.
CfGrossIrr(k) ==
    generate_cashflows(cf_args.deal, cf_args.sofr_curve, cf_args.exit_month,
                       cf_args.has_extension, TRUE)
      .results[IF k = "B_fund" THEN "B" ELSE "C"].irr

\* C15: the LP-net IRR of every fund tranche is at most the gross IRR of the
\* same tranche, and strictly below it when a positive fee or carry is
\* deducted.
C15_NetIrrAtMostGross ==
    CfFundCall =>
        \A k \in CfFunds :
            LET r == cf_out.results[k]
            IN  /\ r.lp_cashflows.irr <= CfGrossIrr(k)
                /\ (r.total_aum_fees > 0 \/ r.promote_at_exit > 0) =>
                      r.lp_cashflows.irr < CfGrossIrr(k)

\* A fund call over several months in which the B fund pays fees but no
\* carry, the C fund pays both, and both net IRRs are positive.
C15_Witness ==
    /\ CfFundCall
    /\ cf_args.exit_month >= 2
    /\ {"B_fund", "C_fund"} \subseteq CfFunds
    /\ cf_out.results["B_fund"].total_aum_fees > 0
    /\ cf_out.results["B_fund"].promote_at_exit = 0
    /\ cf_out.results["C_fund"].promote_at_exit > 0
    /\ cf_out.results["B_fund"].lp_cashflows.irr > 0
    /\ cf_out.results["C_fund"].lp_cashflows.irr > 0
    /\ cf_out.results["C_fund"].lp_cashflows.irr < CfGrossIrr("C_fund")

(***************************************************************************)
(* Conservation of principal, interest and fees in generate_cashflows      *)
(***************************************************************************)
\* The tranche entries of the result of the call in cf_args
CfTrancheKeys == DOMAIN cf_out.results \ {"sponsor", "borrower"}

\* C21: for every tranche and every exit month >= 0 the principal funded at
\* month 0 (-tranche_amount) is returned in full, so the tranche's principal
\* flows sum to zero; the borrower's principal flows (+loan_amount at month 0,
\* -loan_amount at the exit) sum to zero too.
C21_PrincipalReturned ==
    CfSponsorCall =>
        /\ \A k \in CfTrancheKeys :
              LET r == cf_out.results[k]
              IN  /\ r.principal_flows[1] =
                        -get_tranche_amount(cf_args.deal, LastOfType(cf_args.deal, k))
                  /\ SeqSum(r.principal_flows) = 0
        /\ cf_out.results["borrower"].principal_flows[1] = Money(cf_args.deal.loan_amount)
        /\ SeqSum(cf_out.results["borrower"].principal_flows) = 0

\* The annual rate of a tranche in month m of the call: index + spread for a
\* floating tranche, the target rate for a fixed one.
CfTrancheRate(t, m) ==
    IF t.rate_type = "floating" THEN CfSofr(m) + t.spread ELSE t.spread

C25_FeesConserved ==
    CfSponsorCall =>
        \A m \in 0..cf_args.exit_month :
            -cf_out.results["borrower"].fee_flows[m + 1] =
                cf_out.results["sponsor"].fee_flows[m + 1]

\* The tranches whose interest is counted beside the sponsor's: A, B and C
\* in aggregator mode, A and B in principal mode.
CfLenderKeys ==
    CfTrancheKeys \cap (IF cf_args.sponsor_is_principal THEN {"A", "B"}
                                                        ELSE {"A", "B", "C"})

RECURSIVE SumOver(_, _)
SumOver(keys, m) ==
    IF keys = {} THEN 0
    ELSE LET k == CHOOSE x \in keys : TRUE
         IN  cf_out.results[k].interest_flows[m + 1] + SumOver(keys \ {k}, m)

\* C26: in every month m >= 1 the interest the borrower pays is the interest
\* the lender tranches and the sponsor receive together, accrual tranches
\* included.
C26_InterestConserved ==
    CfSponsorCall =>
        \A m \in 1..cf_args.exit_month :
            -cf_out.results["borrower"].interest_flows[m + 1] =
                SumOver(CfLenderKeys, m) + cf_out.results["sponsor"].interest_flows[m + 1]

\* A CashflowResult over exit_month + 1 months whose totals are the sums of
\* its three components
WellFormedResult(r, exit_month) ==
    /\ Len(r.principal_flows) = exit_month + 1
    /\ Len(r.interest_flows) = exit_month + 1
    /\ Len(r.fee_flows) = exit_month + 1
    /\ Len(r.total_flows) = exit_month + 1
    /\ \A j \in 1..(exit_month + 1) :
          r.total_flows[j] = r.principal_flows[j] + r.interest_flows[j] + r.fee_flows[j]

\* The co-invest result the aggregator summary of the call is computed from
CfCoinvest ==
    calc_aggregator_coinvest_flows(cf_args.deal, TrancheOfType(cf_args.deal, "C"),
                                   PadCurve(cf_args.sofr_curve, cf_args.exit_month),
                                   cf_args.exit_month)

\* C27: every CashflowResult of generate_cashflows and generate_fund_cashflows
\* (borrower, tranches, sponsor, the LP result of every fund, the co-invest)
\* has four flow lists of exit_month + 1 entries with
\* total_flows[m] = principal_flows[m] + interest_flows[m] + fee_flows[m].
C27_TotalsAreSums ==
    /\ CfSponsorCall =>
          \A k \in DOMAIN cf_out.results :
              WellFormedResult(cf_out.results[k], cf_args.exit_month)
    /\ CfFundCall =>
          /\ \A k \in DOMAIN cf_out.results \ {"aggregator"} :
                WellFormedResult(IF k \in CfFunds THEN cf_out.results[k].lp_cashflows
                                                  ELSE cf_out.results[k],
                                 cf_args.exit_month)
          /\ ~IsNone(TrancheOfType(cf_args.deal, "C")) =>
                WellFormedResult(CfCoinvest, cf_args.exit_month)

(***************************************************************************)
(* monte_carlo.py : the statistics block of run_monte_carlo                *)
(***************************************************************************)
\* IRRs are in millionths; a percentile keeps PctDen times that resolution, so
\* that linear interpolation between two order statistics stays exact.
RECURSIVE InsertAsc(_, _)
InsertAsc(x, s) ==
    IF s = <<>> THEN <<x>>
    ELSE IF x <= Head(s) THEN <<x>> \o s
    ELSE <<Head(s)>> \o InsertAsc(x, Tail(s))

RECURSIVE SortAsc(_)
SortAsc(s) == IF s = <<>> THEN <<>> ELSE InsertAsc(Head(s), SortAsc(Tail(s)))

Unsorted(a) == a

\* np.percentile orders the sample before it interpolates.
ordered(a) == SortAsc(a)

\* np.percentile(a, q), method 'linear': position q/100 * (n - 1) between the
\* order statistics, fraction rem/100 of the way from one to the next.
percentile(a, q) ==
    LET srt == ordered(a)
        n == Len(srt)
        pos == q * (n - 1)
        lo == (pos \div PctDen) + 1
        hi == Min(lo + 1, n)
        rem == pos % PctDen
    IN  PctDen * srt[lo] + rem * (srt[hi] - srt[lo])

\* a.mean(): the sum and the count it is divided by.
mean(a) == [sum |-> SeqSum(a), n |-> Len(a)]

\* a.std(): n * sum(y^2) - sum(y)^2 over n^2, the variance of the sample taken
\* in units of `unit` (the square root is monotone and left out).
std(a, unit) ==
    LET y == list([i \in 1..Len(a) |-> a[i] \div unit])
        sq == list([i \in 1..Len(y) |-> y[i] * y[i]])
    IN  [var_num |-> Len(a) * SeqSum(sq) - SeqSum(y) * SeqSum(y),
         var_den |-> Len(a) * Len(a)]

\* irrs[irrs <= var_95]
worst_5_pct(irrs, var_95) == SelectSeq(irrs, LAMBDA x : PctDen * x <= var_95)

irr_statistics(irrs) ==
    LET var_95 == percentile(irrs, 5)
        var_99 == percentile(irrs, 1)
        worst == worst_5_pct(irrs, var_95)
    IN  [irr_mean |-> mean(irrs),
         irr_std |-> std(irrs, 1000),
         irr_median |-> percentile(irrs, 50),
         irr_5th |-> percentile(irrs, 5),
         irr_25th |-> percentile(irrs, 25),
         irr_75th |-> percentile(irrs, 75),
         irr_95th |-> percentile(irrs, 95),
         var_95 |-> var_95,
         var_99 |-> var_99,
         expected_shortfall_95 |->
           IF Len(worst) > 0 THEN mean(worst) ELSE [sum |-> var_95, n |-> PctDen]]

(***************************************************************************)
(* The statistics block on samples of twenty and more IRRs                 *)
(***************************************************************************)
MaxDraws == 21

\* The IRR of a wiped-out draw, of a partial loss, of a failed draw (the
\* placeholder 0) and of a normal draw.
IrrWiped == -1000000
IrrPartial == -500000
IrrFailed == 0
IrrNormal == 103612

\* k copies of x
Copies(k, x) == list([i \in 1..k |-> x])

\* The samples of n IRRs with w wiped, p partial, f failed and the rest normal
\* draws, in ascending order, descending order, and rotated.
Sample(n, w, p, f, order) ==
    LET asc == Copies(w, IrrWiped) \o Copies(p, IrrPartial) \o Copies(f, IrrFailed)
                 \o Copies(n - w - p - f, IrrNormal)
    IN  IF order = "asc" THEN asc
        ELSE IF order = "desc" THEN list([i \in 1..n |-> asc[n + 1 - i]])
        ELSE SubSeq(asc, (n \div 2) + 1, n) \o SubSeq(asc, 1, n \div 2)

IrrSamples ==
    { Sample(n, w, p, f, order) :
        n \in 20..MaxDraws, w \in 0..3, p \in 0..3, f \in 0..14,
        order \in {"asc", "desc", "rotated"} }

StatsFrame ==
    UNCHANGED <<dl_vars, lw_vars, mc_vars, cf_vars, ir_vars, sn_vars,
                vk_vars, sf_vars, rs_vars, pp_vars>>

StatsInit == st_pc = "input" /\ st_irrs \in IrrSamples /\ st_out = <<>>

ComputeStatistics ==
    /\ st_pc = "input"
    /\ st_out' = irr_statistics(st_irrs)
    /\ st_pc' = "done"
    /\ UNCHANGED st_irrs
    /\ StatsFrame

StatsNext == ComputeStatistics

\* C8: on every sample of at least 20 IRRs the reported quantiles are ordered:
\* var_99 <= var_95 = irr_5th <= irr_25th <= irr_median <= irr_75th <= irr_95th.
C8_QuantilesOrdered ==
    (st_pc = "done" /\ Len(st_irrs) >= 20) =>
        /\ st_out.var_99 <= st_out.var_95
        /\ st_out.var_95 = st_out.irr_5th
        /\ st_out.irr_5th <= st_out.irr_25th
        /\ st_out.irr_25th <= st_out.irr_median
        /\ st_out.irr_median <= st_out.irr_75th
        /\ st_out.irr_75th <= st_out.irr_95th

\* A sample given in descending order that holds a wiped-out draw, a failed
\* draw and normal draws, and whose 1st and 5th percentiles differ.
C8_Witness ==
    /\ st_pc = "done"
    /\ Len(st_irrs) >= 20
    /\ st_irrs[1] = IrrNormal
    /\ st_irrs[Len(st_irrs)] = IrrWiped
    /\ \E i \in 1..Len(st_irrs) : st_irrs[i] = IrrFailed
    /\ st_out.var_99 < st_out.var_95
    /\ st_out.irr_5th < st_out.irr_95th

(***************************************************************************)
(* monte_carlo.py : random numbers, rate paths, default sampling           *)
(***************************************************************************)
\* A np.random.RandomState is a deterministic generator: its state decides
\* every later draw.  Here it is a full-period congruential generator on
\* RngModulus states; a draw advances the state and reads the new state.
RngModulus == 16
RngNext(state) == (5 * state + 3) % RngModulus

\* np.random.RandomState(seed)
RandomState(seed) == seed % RngModulus

\* random_state.random(): uniform on [0, 1), in millionths
RngUniformPpm(state) == RngNext(state) * (IrrPpm \div RngModulus)

\* random_state.normal(0, 1): a standard deviate, one of -2..2
RngNormal(state) == (RngNext(state) % 5) - 2

\* np.random.RandomState() without a seed reads the operating system's
\* entropy: the state it starts in is any of these.
EntropyStates == {3, 11}

\* VasicekParams defaults: kappa 0.3, theta 4%, sigma 1.5%, r0 4.3%; rates
\* in basis points, kappa in hundredths.
VasicekParams(kappa, theta, sigma, r0) ==
    [kappa |-> kappa, theta |-> theta, sigma |-> sigma, r0 |-> r0]

DefaultVasicekParams == VasicekParams(30, 400, 150, 430)

\* sqrt(1/12) in ten-thousandths
SqrtDtE4 == 2887

\* The floor 0.0001, one basis point
RateFloor == 1

\* One step of the loop: the rate after the shock drawn from `state`.
VasicekStep(params, current_rate, state) ==
    LET dW_z == RngNormal(state)
        drift == (params.kappa * (params.theta - current_rate))
                   \div (PctDen * MonthsPerYear)
        diffusion == (params.sigma * dW_z * SqrtDtE4) \div RateDen
    IN  Max(current_rate + drift + diffusion, RateFloor)

RECURSIVE VasicekLoop(_, _, _, _)
VasicekLoop(params, rates, state, steps) ==
    IF steps <= 0 THEN rates
    ELSE VasicekLoop(params,
                     Append(rates, VasicekStep(params, rates[Len(rates)], state)),
                     RngNext(state), steps - 1)

\* generate_vasicek_path(params, months, random_state): rates = [r0], then
\* months - 1 steps
generate_vasicek_path(params, months, state) ==
    VasicekLoop(params, <<params.r0>>, state, months - 1)

\* monthly_pd = 1 - (1 - annual_pd) ** (1/12) in millionths, for the annual
\* default probabilities 0, 2% and 100% (in basis points).
monthly_pd(annual_pd) ==
    IF annual_pd = 0 THEN 0
    ELSE IF annual_pd = 200 THEN 1682
    ELSE IrrPpm

\* simulate_default: the first month in 1..months whose roll is below
\* monthly_pd; one roll per month tried.
RECURSIVE simulate_default(_, _, _, _)
simulate_default(annual_pd, months, state, month) ==
    IF month > months
      THEN [defaulted |-> FALSE, default_month |-> 0, state |-> state]
    ELSE IF RngUniformPpm(state) < monthly_pd(annual_pd)
      THEN [defaulted |-> TRUE, default_month |-> month, state |-> RngNext(state)]
    ELSE simulate_default(annual_pd, months, RngNext(state), month + 1)

\* MonteCarloConfig defaults: recovery_rate_mean 0.70, recovery_rate_std 0.15
MonteCarloConfig(n, seed, include_default, pd) ==
    [num_simulations |-> n, random_seed |-> seed, include_default |-> include_default,
     default_probability |-> pd, recovery_rate_mean |-> 70, recovery_rate_std |-> 15]

\* max(0, min(1, random_state.normal(mean, std))), in hundredths
draw_recovery_rate(config, state) ==
    Max(0, Min(PctDen, config.recovery_rate_mean
                         + config.recovery_rate_std * RngNormal(state)))

\* The default branch of the loop body (monte_carlo.py lines 234-254) for a
\* drawn recovery rate.  deal.tranches[2] raises IndexError on fewer than
\* three tranches; (c_amount - c_loss) / c_amount raises ZeroDivisionError on
\* an empty third tranche.
default_branch(deal, recovery_rate) ==
    IF Len(deal.tranches) < 3 THEN [raised |-> "IndexError"]
    ELSE LET loss == PctOf(deal.loan_amount, PctDen - recovery_rate)
             c_amount == PctOf(deal.loan_amount, deal.tranches[3].percentage)
             c_loss == Min(loss, c_amount)
             unit == MoneyScale \div PctDen
         IN  IF c_amount = 0 THEN [raised |-> "ZeroDivisionError"]
             ELSE [raised |-> "", loss |-> loss, c_amount |-> c_amount, c_loss |-> c_loss,
                   irr |-> IF c_loss >= c_amount THEN -IrrPpm
                           ELSE -(((c_loss \div unit) * IrrPpm) \div (c_amount \div unit)),
                   moic |-> Ratio(c_amount - c_loss, c_amount),
                   profit |-> -c_loss]

\* The normal branch (lines 256-270): the sponsor's metrics, or the values
\* the except clause puts in their place.
normal_branch(deal, sofr_path, exit_month, sponsor_is_principal) ==
    LET r == generate_cashflows(deal, sofr_path, exit_month, FALSE, sponsor_is_principal)
    IN  IF r.raised # ""
          THEN [caught |-> r.raised, irr |-> 0, moic |-> Ratio(1, 1), profit |-> 0]
          ELSE [caught |-> "", irr |-> r.results["sponsor"].irr,
                moic |-> r.results["sponsor"].moic,
                profit |-> r.results["sponsor"].total_profit]

SimulationPath(path_id, sofr_path, irr, moic, profit, defaulted, default_month) ==
    [path_id |-> path_id, sofr_path |-> sofr_path, irr |-> irr, moic |-> moic,
     profit |-> profit, defaulted |-> defaulted, default_month |-> default_month]

\* A MOIC in thousandths
MoicPermille(moic) ==
    IF moic.den < 1000 THEN (moic.num * 1000) \div moic.den
    ELSE ((moic.num \div 1000) * 1000) \div (moic.den \div 1000)

HasInf(moics) == \E i \in 1..Len(moics) : moics[i].kind = "inf"

\* moics.mean() and moics.std(): inf and nan as soon as one MOIC is inf
moic_statistics(moics) ==
    IF HasInf(moics) THEN [moic_mean |-> Infinity, moic_std |-> [kind |-> "nan"]]
    ELSE LET m == list([i \in 1..Len(moics) |-> MoicPermille(moics[i])])
         IN  [moic_mean |-> mean(m), moic_std |-> std(m, 1)]

MonteCarloResult(config, paths, irrs, moics, profits, defaults) ==
    [config |-> config, paths |-> paths,
     profit_mean |-> mean(profits), profit_std |-> std(profits, 1000),
     default_rate |-> [num |-> defaults, den |-> config.num_simulations],
     loss_given_default |-> PctDen - config.recovery_rate_mean]
      @@ irr_statistics(irrs) @@ moic_statistics(moics)

(***************************************************************************)
(* monte_carlo.py : run_monte_carlo, step by step, called twice            *)
(***************************************************************************)
MaxSims == 2
MaxRuns == 2
Seeds == {9, 42}
ExitMonths == {-1, 1, 2}

\* Annual default probabilities, in basis points: the default 2%, and 100%
DefaultProbabilities == {200, RateDen}

\* The default stack, the same stack listed junior first, a stack with an
\* empty third tranche and a stack of two tranches: every one sums to 100%.
McStacks ==
    { DefaultTranches(70, 20, 10),
      << DefaultTranches(70, 20, 10)[3], DefaultTranches(70, 20, 10)[2],
         DefaultTranches(70, 20, 10)[1] >>,
      DefaultTranches(80, 20, 0),
      SubSeq(DefaultTranches(80, 20, 0), 1, 2) }

McDeals ==
    { Deal(4, 2, DefaultTermMonths, ts,
           FeeStructure(DefaultOriginationFee, DefaultExitFee,
                        DefaultMonthlyMgmtFee, DefaultExtensionFee),
           DefaultBorrowerSpread) : ts \in McStacks }

McInputs ==
    { [deal |-> d, exit_month |-> e,
       config |-> MonteCarloConfig(MaxSims, seed, incl, pd),
       vasicek_params |-> DefaultVasicekParams,
       sponsor_is_principal |-> sp] :
        d \in McDeals, e \in ExitMonths, seed \in Seeds,
        incl \in BOOLEAN, pd \in DefaultProbabilities, sp \in BOOLEAN }

McFrame ==
    UNCHANGED <<dl_vars, lw_vars, st_vars, cf_vars, ir_vars, sn_vars,
                vk_vars, sf_vars, rs_vars, pp_vars>>

McInit ==
    /\ mc_pc = "input" /\ mc_args \in McInputs
    /\ mc_rng = 0 /\ mc_loc = <<>> /\ mc_ret = <<>>

\* Lines 197-219: np.random.seed(seed) seeds numpy's global generator,
\* random_state is the run's own generator, the lists are empty.
EnterRunMonteCarlo ==
    /\ mc_pc \in {"input", "returned"}
    /\ Len(mc_ret) < MaxRuns
    /\ mc_rng' = RandomState(mc_args.config.random_seed)
    /\ mc_loc' = [np_random |-> RandomState(mc_args.config.random_seed),
                  sofr_paths |-> <<>>, paths |-> <<>>, irrs |-> <<>>,
                  moics |-> <<>>, profits |-> <<>>, defaults |-> 0, i |-> 0,
                  defaulted |-> FALSE, default_month |-> 0, recovery_rate |-> 0,
                  c_loss |-> 0, irr |-> 0, moic |-> Ratio(0, 1), profit |-> 0,
                  caught |-> "", exception |-> ""]
    /\ mc_pc' = "paths"
    /\ UNCHANGED <<mc_args, mc_ret>>
    /\ McFrame

\* generate_multiple_paths, one iteration: generate_vasicek_path is called
\* without a random_state and builds np.random.RandomState() for itself.
GenerateVasicekPath ==
    /\ mc_pc = "paths"
    /\ \E entropy \in EntropyStates :
          LET path == generate_vasicek_path(mc_args.vasicek_params,
                                            mc_args.exit_month + 12, entropy)
              sofr_paths == Append(mc_loc.sofr_paths, path)
          IN  /\ mc_loc' = [mc_loc EXCEPT !.sofr_paths = sofr_paths]
              /\ mc_pc' = IF Len(sofr_paths) < mc_args.config.num_simulations
                            THEN "paths" ELSE "draw"
    /\ UNCHANGED <<mc_args, mc_rng, mc_ret>>
    /\ McFrame

\* Lines 222-232: defaulted, default_month of draw i
SampleDefault ==
    /\ mc_pc = "draw"
    /\ LET r == IF mc_args.config.include_default
                  THEN simulate_default(mc_args.config.default_probability,
                                        mc_args.exit_month, mc_rng, 1)
                  ELSE [defaulted |-> FALSE, default_month |-> 0, state |-> mc_rng]
       IN  /\ mc_rng' = r.state
           /\ mc_loc' = [mc_loc EXCEPT !.defaulted = r.defaulted,
                                       !.default_month = r.default_month,
                                       !.caught = "", !.recovery_rate = 0,
                                       !.c_loss = 0]
    /\ mc_pc' = "sampled"
    /\ UNCHANGED <<mc_args, mc_ret>>
    /\ McFrame

\* Lines 234-254: outside any try, an exception here leaves run_monte_carlo.
EvaluateLoss ==
    /\ mc_pc = "sampled"
    /\ mc_loc.defaulted
    /\ LET recovery_rate == draw_recovery_rate(mc_args.config, mc_rng)
           b == default_branch(mc_args.deal, recovery_rate)
       IN  IF b.raised # ""
             THEN /\ mc_loc' = [mc_loc EXCEPT !.recovery_rate = recovery_rate,
                                              !.exception = b.raised]
                  /\ mc_pc' = "raised"
             ELSE /\ mc_loc' = [mc_loc EXCEPT !.recovery_rate = recovery_rate,
                                              !.c_loss = b.c_loss, !.irr = b.irr,
                                              !.moic = b.moic, !.profit = b.profit,
                                              !.defaults = @ + 1]
                  /\ mc_pc' = "evaluated"
    /\ mc_rng' = RngNext(mc_rng)
    /\ UNCHANGED <<mc_args, mc_ret>>
    /\ McFrame

\* Lines 256-270: try generate_cashflows, except Exception: placeholders.
EvaluateCashflows ==
    /\ mc_pc = "sampled"
    /\ ~mc_loc.defaulted
    /\ LET b == normal_branch(mc_args.deal, mc_loc.sofr_paths[mc_loc.i + 1],
                              mc_args.exit_month, mc_args.sponsor_is_principal)
       IN  mc_loc' = [mc_loc EXCEPT !.caught = b.caught, !.irr = b.irr,
                                   !.moic = b.moic, !.profit = b.profit]
    /\ mc_pc' = "evaluated"
    /\ UNCHANGED <<mc_args, mc_rng, mc_ret>>
    /\ McFrame

\* Lines 272-284: the record and the three lists grow by one, whatever the
\* branch that produced the values.
AppendRecord ==
    /\ mc_pc = "evaluated"
    /\ mc_loc' = [mc_loc EXCEPT
                    !.paths = Append(@, SimulationPath(mc_loc.i,
                                        mc_loc.sofr_paths[mc_loc.i + 1], mc_loc.irr,
                                        mc_loc.moic, mc_loc.profit, mc_loc.defaulted,
                                        mc_loc.default_month)),
                    !.irrs = Append(@, mc_loc.irr),
                    !.moics = Append(@, mc_loc.moic),
                    !.profits = Append(@, mc_loc.profit),
                    !.i = @ + 1]
    /\ mc_pc' = IF mc_loc.i + 1 < Len(mc_loc.sofr_paths) THEN "draw" ELSE "statistics"
    /\ UNCHANGED <<mc_args, mc_rng, mc_ret>>
    /\ McFrame

\* Lines 286-321
ReturnMonteCarloResult ==
    /\ mc_pc = "statistics"
    /\ mc_ret' = Append(mc_ret, MonteCarloResult(mc_args.config, mc_loc.paths,
                                                 mc_loc.irrs, mc_loc.moics,
                                                 mc_loc.profits, mc_loc.defaults))
    /\ mc_pc' = "returned"
    /\ UNCHANGED <<mc_args, mc_rng, mc_loc>>
    /\ McFrame

McNext ==
    \/ EnterRunMonteCarlo
    \/ GenerateVasicekPath
    \/ SampleDefault
    \/ EvaluateLoss
    \/ EvaluateCashflows
    \/ AppendRecord
    \/ ReturnMonteCarloResult

\* C4: two calls of run_monte_carlo with the same deal, exit month, rate
\* model and config (same seed) return identical results: the same rate path,
\* IRR, MOIC, profit, default flag and month for every draw, and the same
\* aggregate statistics.
C4_SameSeedSameResult ==
    Len(mc_ret) = MaxRuns => mc_ret[1] = mc_ret[2]

\* The draws of a returned run whose cashflow evaluation raised.
McFailedDraws(result) ==
    { i \in 1..Len(result.paths) :
        /\ ~result.paths[i].defaulted
        /\ generate_cashflows(mc_args.deal, result.paths[i].sofr_path,
                              mc_args.exit_month, FALSE,
                              mc_args.sponsor_is_principal).raised # "" }

\* C5: a draw whose evaluation fails is left out of the aggregate statistics,
\* and the result reports how many draws failed.
C5_FailedDrawsExcluded ==
    (mc_pc = "returned" /\ McFailedDraws(mc_ret[Len(mc_ret)]) # {}) =>
        LET result == mc_ret[Len(mc_ret)]
            failed == Cardinality(McFailedDraws(result))
        IN  /\ result.irr_mean.n = Len(result.paths) - failed
            /\ result.profit_mean.n = Len(result.paths) - failed
            /\ "failed_draws" \in DOMAIN result
            /\ result.failed_draws = failed

\* C6: run_monte_carlo never aborts for a deal whose tranches sum to 100%:
\* an error inside a draw stays inside the draw.
C6_NeverAborts ==
    mc_pc = "raised" => validate_raises(mc_args.deal)

\* The C-piece loss the loss engine yields for the recovery rate of the draw:
\* calculate_total_loss, then allocate_losses_waterfall over all tranches.
WaterfallSponsorLoss(deal, default_month, recovery_rate) ==
    LET w == run_loss_waterfall(deal.loan_amount, deal.property_value,
                                TrancheOfType(deal, "A").percentage,
                                TrancheOfType(deal, "B").percentage,
                                TrancheOfType(deal, "C").percentage,
                                DefaultScenario(default_month, recovery_rate,
                                                DefaultMonthsToRecovery,
                                                DefaultLegalCostsPct,
                                                DefaultCarryingCostsPct),
                                430, deal.borrower_spread, 0)
    IN  AllocOf(w.allocations, "C-Piece").loss_amount

\* C7: the loss recorded for a defaulted draw is the loss the loss engine
\* allocates to the C-piece for the drawn recovery rate.
C7_LossFromWaterfall ==
    (mc_pc = "evaluated" /\ mc_loc.defaulted) =>
        /\ mc_loc.c_loss = WaterfallSponsorLoss(mc_args.deal, mc_loc.default_month,
                                                mc_loc.recovery_rate)
        /\ mc_loc.profit = -mc_loc.c_loss

(***************************************************************************)
(* monte_carlo.py : generate_vasicek_path on its own                       *)
(***************************************************************************)
MaxMonths == 4

\* Model parameters: the defaults, and no mean reversion, a negative
\* long-run mean, no and a large volatility, a negative, a zero and a tiny
\* positive initial rate.  VasicekParams is a plain dataclass: nothing
\* checks a field.
VasicekInputs ==
    { [params |-> VasicekParams(kappa, theta, sigma, r0), months |-> months,
       random_state |-> state] :
        kappa \in {0, 30}, theta \in {-100, 400}, sigma \in {0, 150, 600},
        r0 \in {-50, 0, RateFloor, 430}, months \in 0..MaxMonths,
        state \in {0, 5, 11} }

VasicekFrame ==
    UNCHANGED <<dl_vars, lw_vars, mc_vars, st_vars, cf_vars, ir_vars, sn_vars,
                sf_vars, rs_vars, pp_vars>>

VasicekInit == vk_pc = "input" /\ vk_in \in VasicekInputs /\ vk_out = <<>>

\* A call generate_vasicek_path(params, months, random_state=...)
CallGenerateVasicekPath ==
    /\ vk_pc = "input"
    /\ vk_out' = generate_vasicek_path(vk_in.params, vk_in.months, vk_in.random_state)
    /\ vk_pc' = "returned"
    /\ UNCHANGED vk_in
    /\ VasicekFrame

VasicekNext == CallGenerateVasicekPath

\* C23: every rate of a path returned by generate_vasicek_path is strictly
\* greater than zero, the first element included, whatever the parameters
\* (kappa, theta, sigma, r0) and the shocks.
C23_RatesPositive ==
    vk_pc = "returned" => \A i \in 1..Len(vk_out) : vk_out[i] > 0

\* What the floor does give: every rate after the first is at least the
\* floor, and the first is r0 as it was passed.
VasicekFlooredAfterFirst ==
    vk_pc = "returned" =>
        /\ Len(vk_out) = Max(vk_in.months, 1)
        /\ vk_out[1] = vk_in.params.r0
        /\ \A i \in 2..Len(vk_out) : vk_out[i] >= RateFloor

\* C24: every draw i of run_monte_carlo goes through its steps in order: its
\* rate path exists before anything else, the default is sampled only if
\* include_default and then with a month in 1..exit_month, exactly one
\* evaluation follows (the loss branch if and only if the draw defaulted),
\* then exactly one record is appended; the run ends with exactly
\* num_simulations records, path_id i at position i.
McDrawInOrder ==
    /\ mc_pc \in {"draw", "sampled", "evaluated"} =>
          /\ mc_loc.i < mc_args.config.num_simulations
          /\ Len(mc_loc.sofr_paths) = mc_args.config.num_simulations
          /\ Len(mc_loc.paths) = mc_loc.i
    /\ mc_pc \in {"sampled", "evaluated"} =>
          /\ mc_loc.defaulted => /\ mc_args.config.include_default
                                 /\ mc_loc.default_month \in 1..mc_args.exit_month
    /\ mc_pc = "evaluated" =>
          IF mc_loc.defaulted
            THEN mc_loc.irr = default_branch(mc_args.deal, mc_loc.recovery_rate).irr
            ELSE mc_loc.irr = normal_branch(mc_args.deal,
                                            mc_loc.sofr_paths[mc_loc.i + 1],
                                            mc_args.exit_month,
                                            mc_args.sponsor_is_principal).irr
    /\ mc_pc \in {"paths", "draw", "sampled", "evaluated", "statistics", "raised"} =>
          /\ Len(mc_loc.irrs) = Len(mc_loc.paths)
          /\ \A k \in 1..Len(mc_loc.paths) :
                /\ mc_loc.paths[k].path_id = k - 1
                /\ mc_loc.paths[k].sofr_path = mc_loc.sofr_paths[k]
    /\ mc_pc = "returned" =>
          LET result == mc_ret[Len(mc_ret)]
          IN  /\ Len(result.paths) = mc_args.config.num_simulations
              /\ \A k \in 1..Len(result.paths) : result.paths[k].path_id = k - 1

McDrawCompletes == mc_pc # "raised"

C24_DrawStepsInOrder == McDrawInOrder /\ McDrawCompletes

(***************************************************************************)
(* sensitivity.py : sweep points                                           *)
(***************************************************************************)
\* Sweep values are in the unit of the parameter: basis points for sofr, the
\* spreads and the fees, hundredths for ltv, months for exit_month.

\* The Deal built for a sweep point: property_value, loan_amount,
\* term_months, tranches, fees and borrower_spread are taken from the base
\* deal (expected_hud_month too, which the cashflow engine does not read);
\* every other field takes the dataclass default.  fees is the base deal's
\* FeeStructure object itself, tranches is a new list of the same Tranche
\* objects.
TestDeal(deal) ==
    Deal(deal.property_value, deal.loan_amount, deal.term_months, deal.tranches,
         deal.fees, deal.borrower_spread)

\* Tranche(TrancheType.X, percentage, RateType.FLOATING, value)
SweptTranche(ty, percentage, value) == Tranche(ty, percentage, "floating", value, TRUE, 0)

SensitivityResult(value, sponsor) ==
    [param1_value |-> value, irr |-> sponsor.irr, moic |-> sponsor.moic,
     profit |-> sponsor.total_profit]

\* The tranche index (1-based) a spread parameter writes to; 0 for the rest.
SpreadSlot(param_name) ==
    IF param_name = "a_spread" THEN 1 ELSE IF param_name = "b_spread" THEN 2 ELSE 0

\* One iteration of the loop of run_1way_sensitivity.  deal.tranches[0] and
\* deal.tranches[1] raise IndexError on a shorter list; a name the if-chain
\* does not know changes nothing.
one_way_point(deal, sofr_curve, exit_month, param_name, value) ==
    IF Len(deal.tranches) < SpreadSlot(param_name) THEN [raised |-> "IndexError"]
    ELSE
      LET base == TestDeal(deal)
          test_sofr == IF param_name = "sofr"
                         THEN list([i \in 1..Len(sofr_curve) |-> value])
                         ELSE sofr_curve
          test_exit == IF param_name = "exit_month" THEN value ELSE exit_month
          test_deal ==
            IF param_name = "ltv"
              THEN [base EXCEPT !.loan_amount = (deal.property_value * value) \div PctDen]
            ELSE IF param_name = "a_spread"
              THEN [base EXCEPT !.tranches[1] =
                      SweptTranche("A", deal.tranches[1].percentage, value)]
            ELSE IF param_name = "b_spread"
              THEN [base EXCEPT !.tranches[2] =
                      SweptTranche("B", deal.tranches[2].percentage, value)]
            ELSE IF param_name = "borrower_spread"
              THEN [base EXCEPT !.borrower_spread = value]
            ELSE base
          cf == generate_cashflows(test_deal, test_sofr, test_exit, FALSE, TRUE)
      IN  IF cf.raised # "" THEN [raised |-> cf.raised]
          ELSE [raised |-> "", result |-> SensitivityResult(value, cf.results["sponsor"])]

\* _apply_param(deal, sofr_curve, param_name, value, original_sofr): the deal
\* after the assignment.  deal.fees.origination_fee = value writes into the
\* FeeStructure object the deal refers to.
apply_param(deal, param_name, value) ==
    IF Len(deal.tranches) < SpreadSlot(param_name) THEN [raised |-> "IndexError"]
    ELSE [raised |-> "",
          deal |->
            IF param_name = "ltv"
              THEN [deal EXCEPT !.loan_amount = (deal.property_value * value) \div PctDen]
            ELSE IF param_name = "a_spread"
              THEN [deal EXCEPT !.tranches[1] =
                      SweptTranche("A", deal.tranches[1].percentage, value)]
            ELSE IF param_name = "b_spread"
              THEN [deal EXCEPT !.tranches[2] =
                      SweptTranche("B", deal.tranches[2].percentage, value)]
            ELSE IF param_name = "borrower_spread"
              THEN [deal EXCEPT !.borrower_spread = value]
            ELSE IF param_name = "origination_fee"
              THEN [deal EXCEPT !.fees.origination_fee = value]
            ELSE IF param_name = "exit_fee"
              THEN [deal EXCEPT !.fees.exit_fee = value]
            ELSE deal]

NaN == [kind |-> "nan"]

\* The metric of a sponsor result
MetricOf(sponsor, metric) ==
    IF metric = "irr" THEN sponsor.irr
    ELSE IF metric = "moic" THEN sponsor.moic
    ELSE sponsor.total_profit

\* The body of the double loop of run_2way_sensitivity for the values v1, v2:
\* the value stored in results[i, j] and the FeeStructure object afterwards.
\* The two _apply_param calls are outside the try block.
two_way_cell(deal, sofr_curve, exit_month, param1_name, v1, param2_name, v2, metric) ==
    LET a1 == apply_param(TestDeal(deal), param1_name, v1)
        a2 == IF a1.raised # "" THEN a1 ELSE apply_param(a1.deal, param2_name, v2)
        exit1 == IF param1_name = "exit_month" THEN v1 ELSE exit_month
        sofr1 == IF param1_name = "sofr" THEN list([i \in 1..Len(sofr_curve) |-> v1])
                 ELSE sofr_curve
        test_exit == IF param2_name = "exit_month" THEN v2 ELSE exit1
        test_sofr == IF param2_name = "sofr" THEN list([i \in 1..Len(sofr_curve) |-> v2])
                     ELSE sofr1
    IN  IF a2.raised # "" THEN a2
        ELSE LET cf == generate_cashflows(a2.deal, test_sofr, test_exit, FALSE, TRUE)
             IN  [raised |-> "",
                  fees |-> a2.deal.fees,
                  value |-> IF cf.raised # "" THEN NaN
                            ELSE MetricOf(cf.results["sponsor"], metric)]

(***************************************************************************)
(* sensitivity.py : run_1way_sensitivity, run_2way_sensitivity,            *)
(* calculate_breakeven, step by step                                       *)
(***************************************************************************)
max_iterations == 50

\* tolerance = 0.0001, in millionths
DefaultTolerance == 100

\* The search works on floats; here a value is a whole number of 1/Resolution
\* of the parameter's unit, and the cashflow engine is given the whole units.
Resolution == 16

Whole(x) == x \div Resolution

\* ranges.get(param_name, (0, 1)), in the parameter's unit
DefaultSearchRange(param_name) ==
    IF param_name = "sofr" THEN <<0, 1500>>
    ELSE IF param_name = "exit_month" THEN <<6, 60>>
    ELSE IF param_name = "ltv" THEN <<50, 95>>
    ELSE IF param_name = "borrower_spread" THEN <<100, 1000>>
    ELSE <<0, RateDen>>

SensCurve == <<300, 300, 300>>
SensExit == 2

\* The default deal, and a deal whose borrower pays a fixed 9% and whose
\* A-piece earns a fixed 5%.
SensDefaultDeal ==
    Deal(4, 2, DefaultTermMonths, DefaultTranches(70, 20, 10),
         FeeStructure(DefaultOriginationFee, DefaultExitFee,
                      DefaultMonthlyMgmtFee, DefaultExtensionFee),
         DefaultBorrowerSpread)

SensFixedRateDeal ==
    [SensDefaultDeal EXCEPT !.borrower_rate_type = "fixed",
                            !.borrower_fixed_rate = 900,
                            !.tranches[1] = Tranche("A", 70, "fixed", 500, TRUE, 0)]

SensDeals == {SensDefaultDeal, SensFixedRateDeal}

\* The value a parameter has at the unperturbed point
BaseValue(deal, param_name) ==
    IF param_name = "sofr" THEN SensCurve[1]
    ELSE IF param_name = "exit_month" THEN SensExit
    ELSE IF param_name = "ltv" THEN (deal.loan_amount * PctDen) \div deal.property_value
    ELSE IF param_name = "a_spread" THEN deal.tranches[1].spread
    ELSE IF param_name = "b_spread" THEN deal.tranches[2].spread
    ELSE IF param_name = "borrower_spread" THEN deal.borrower_spread
    ELSE IF param_name = "origination_fee" THEN deal.fees.origination_fee
    ELSE deal.fees.exit_fee

\* Another value of the parameter
OtherValue(param_name) ==
    IF param_name = "sofr" THEN 500
    ELSE IF param_name = "exit_month" THEN 3
    ELSE IF param_name = "ltv" THEN 25
    ELSE IF param_name = "a_spread" THEN 250
    ELSE IF param_name = "b_spread" THEN 700
    ELSE IF param_name = "borrower_spread" THEN 450
    ELSE IF param_name = "origination_fee" THEN 200
    ELSE 100

\* Sweeps of up to two values that hold the base value
SweepValues(deal, param_name) ==
    { <<>>, <<BaseValue(deal, param_name)>>,
      <<BaseValue(deal, param_name), OtherValue(param_name)>>,
      <<OtherValue(param_name), BaseValue(deal, param_name)>> }

OneWayParams == {"sofr", "exit_month", "ltv", "a_spread", "b_spread", "borrower_spread"}

TwoWayParams ==
    { <<"origination_fee", "exit_fee">>, <<"sofr", "exit_month">>,
      <<"ltv", "borrower_spread">>, <<"a_spread", "b_spread">>,
      <<"borrower_spread", "origination_fee">>, <<"exit_fee", "sofr">> }

Metrics == {"irr", "moic", "profit"}

BreakevenParams == {"sofr", "exit_month", "borrower_spread", "origination_fee"}

\* The sponsor IRR of the default deal at the unperturbed point
SensBaseIrr ==
    generate_cashflows(SensDefaultDeal, SensCurve, SensExit, FALSE, TRUE)
        .results["sponsor"].irr

\* Targets below every IRR of the range, met inside it, and above every one
UnreachableIrr == 9000000
TargetIrrs == {0, SensBaseIrr, UnreachableIrr}

\* The search ranges passed in: the default of the parameter (search_range
\* = None) and short ones; exits are searched over short horizons only.
SearchRanges(param_name) ==
    IF param_name = "exit_month" THEN {<<0, 4>>, <<1, 5>>}
    ELSE IF param_name = "sofr" THEN {DefaultSearchRange(param_name), <<0, 8>>}
    ELSE {DefaultSearchRange(param_name)}

SensCall(fn, deal) ==
    [fn |-> fn, deal |-> deal, sofr_curve |-> SensCurve, exit_month |-> SensExit]

\* The locals a call starts with
SensLocals(args) ==
    IF args.fn = "calculate_breakeven"
      THEN [low |-> args.search_range[1] * Resolution,
            high |-> args.search_range[2] * Resolution,
            iteration |-> 0, evaluations |-> 0]
      ELSE [i |-> 0, j |-> 0, results |-> <<>>]

SensFrame ==
    UNCHANGED <<dl_vars, lw_vars, mc_vars, st_vars, cf_vars, ir_vars,
                vk_vars, sf_vars, rs_vars, pp_vars>>

SensInit ==
    /\ sn_pc = "loop"
    /\ \E d \in SensDeals :
         \/ \E p \in OneWayParams : \E vs \in SweepValues(d, p) :
              sn_args = SensCall("run_1way_sensitivity", d)
                          @@ [param_name |-> p, param_values |-> vs]
         \/ \E pp \in TwoWayParams, m \in Metrics :
              \E vs1 \in SweepValues(SensDefaultDeal, pp[1]),
                 vs2 \in SweepValues(SensDefaultDeal, pp[2]) :
                sn_args = SensCall("run_2way_sensitivity", SensDefaultDeal)
                            @@ [param1_name |-> pp[1], param1_values |-> vs1,
                                param2_name |-> pp[2], param2_values |-> vs2,
                                metric |-> m]
         \/ \E p \in BreakevenParams, t \in TargetIrrs :
              \E r \in SearchRanges(p) :
                sn_args = SensCall("calculate_breakeven", SensDefaultDeal)
                            @@ [param_name |-> p, target_irr |-> t,
                                search_range |-> r, tolerance |-> DefaultTolerance]
    /\ sn_heap = [deal |-> sn_args.deal, sofr_curve |-> sn_args.sofr_curve]
    /\ sn_loc = SensLocals(sn_args)
    /\ sn_out = <<>>

\* run_1way_sensitivity, one iteration of `for value in param_values`
OneWayPoint ==
    /\ sn_pc = "loop"
    /\ sn_args.fn = "run_1way_sensitivity"
    /\ sn_loc.i < Len(sn_args.param_values)
    /\ LET r == one_way_point(sn_heap.deal, sn_heap.sofr_curve, sn_args.exit_month,
                              sn_args.param_name, sn_args.param_values[sn_loc.i + 1])
       IN  IF r.raised # ""
             THEN /\ sn_pc' = "raised"
                  /\ sn_out' = r
                  /\ UNCHANGED sn_loc
             ELSE /\ sn_pc' = "loop"
                  /\ sn_loc' = [sn_loc EXCEPT !.i = @ + 1,
                                              !.results = Append(@, r.result)]
                  /\ UNCHANGED sn_out
    /\ UNCHANGED <<sn_args, sn_heap>>
    /\ SensFrame

\* return results
OneWayReturn ==
    /\ sn_pc = "loop"
    /\ sn_args.fn = "run_1way_sensitivity"
    /\ sn_loc.i = Len(sn_args.param_values)
    /\ sn_out' = sn_loc.results
    /\ sn_pc' = "returned"
    /\ UNCHANGED <<sn_args, sn_heap, sn_loc>>
    /\ SensFrame

\* run_2way_sensitivity, one iteration of the inner loop.  test_deal.fees is
\* deal.fees, so what _apply_param writes into it is written into the
\* caller's deal.
TwoWayCell ==
    /\ sn_pc = "loop"
    /\ sn_args.fn = "run_2way_sensitivity"
    /\ sn_loc.i < Len(sn_args.param1_values)
    /\ sn_loc.j < Len(sn_args.param2_values)
    /\ LET r == two_way_cell(sn_heap.deal, sn_heap.sofr_curve, sn_args.exit_month,
                             sn_args.param1_name, sn_args.param1_values[sn_loc.i + 1],
                             sn_args.param2_name, sn_args.param2_values[sn_loc.j + 1],
                             sn_args.metric)
           last == sn_loc.j + 1 = Len(sn_args.param2_values)
       IN  IF r.raised # ""
             THEN /\ sn_pc' = "raised"
                  /\ sn_out' = r
                  /\ UNCHANGED <<sn_loc, sn_heap>>
             ELSE /\ sn_pc' = "loop"
                  /\ sn_heap' = [sn_heap EXCEPT !.deal.fees = r.fees]
                  /\ sn_loc' = [sn_loc EXCEPT
                                  !.i = IF last THEN @ + 1 ELSE @,
                                  !.j = IF last THEN 0 ELSE @ + 1,
                                  !.results = Append(@, r.value)]
                  /\ UNCHANGED sn_out
    /\ UNCHANGED sn_args
    /\ SensFrame

\* After the loops: the base case on the caller's deal as it is now, and the
\* SensitivityTable.
TwoWayBaseCase ==
    /\ sn_pc = "loop"
    /\ sn_args.fn = "run_2way_sensitivity"
    /\ \/ sn_loc.i = Len(sn_args.param1_values)
       \/ Len(sn_args.param2_values) = 0
    /\ LET base_cf == generate_cashflows(sn_heap.deal, sn_heap.sofr_curve,
                                         sn_args.exit_month, FALSE, TRUE)
       IN  IF base_cf.raised # ""
             THEN /\ sn_pc' = "raised"
                  /\ sn_out' = [raised |-> base_cf.raised]
             ELSE /\ sn_pc' = "returned"
                  /\ sn_out' = [param1_name |-> sn_args.param1_name,
                                param1_values |-> sn_args.param1_values,
                                param2_name |-> sn_args.param2_name,
                                param2_values |-> sn_args.param2_values,
                                results |-> sn_loc.results,
                                metric |-> sn_args.metric,
                                base_case_value |->
                                  MetricOf(base_cf.results["sponsor"], sn_args.metric)]
    /\ UNCHANGED <<sn_args, sn_heap, sn_loc>>
    /\ SensFrame

\* The loop runs without a bound on its iterations.
Unbounded(iteration) == TRUE

\* for _ in range(max_iterations)
InRange(iteration) == iteration < max_iterations

\* calculate_breakeven, one iteration of the binary search.  The value
\* returned is sn_out.value; converged and evaluations record how the search
\* ended and how often it ran the cashflows.
BreakevenIterate ==
    /\ sn_pc = "loop"
    /\ sn_args.fn = "calculate_breakeven"
    /\ InRange(sn_loc.iteration)
    /\ LET mid == (sn_loc.low + sn_loc.high) \div 2
           r == one_way_point(sn_heap.deal, sn_heap.sofr_curve, sn_args.exit_month,
                              sn_args.param_name, Whole(mid))
       IN  IF r.raised # ""
             THEN /\ sn_pc' = "raised"
                  /\ sn_out' = r
                  /\ sn_loc' = [sn_loc EXCEPT !.evaluations = @ + 1]
           ELSE IF Abs(r.result.irr - sn_args.target_irr) < sn_args.tolerance
             THEN /\ sn_pc' = "returned"
                  /\ sn_out' = [value |-> mid, converged |-> TRUE]
                  /\ sn_loc' = [sn_loc EXCEPT !.evaluations = @ + 1]
           ELSE /\ sn_pc' = "loop"
                /\ sn_loc' = [sn_loc EXCEPT
                                !.low = IF r.result.irr > sn_args.target_irr THEN mid ELSE @,
                                !.high = IF r.result.irr > sn_args.target_irr THEN @ ELSE mid,
                                !.iteration = @ + 1,
                                !.evaluations = @ + 1]
                /\ UNCHANGED sn_out
    /\ UNCHANGED <<sn_args, sn_heap>>
    /\ SensFrame

\* return (low + high) / 2
BreakevenExhausted ==
    /\ sn_pc = "loop"
    /\ sn_args.fn = "calculate_breakeven"
    /\ ~InRange(sn_loc.iteration)
    /\ sn_out' = [value |-> (sn_loc.low + sn_loc.high) \div 2, converged |-> FALSE]
    /\ sn_pc' = "returned"
    /\ UNCHANGED <<sn_args, sn_heap, sn_loc>>
    /\ SensFrame

SensNext ==
    \/ OneWayPoint
    \/ OneWayReturn
    \/ TwoWayCell
    \/ TwoWayBaseCase
    \/ BreakevenIterate
    \/ BreakevenExhausted

(***************************************************************************)
(* Claims about the sensitivity sweeps                                     *)
(***************************************************************************)
\* The sponsor result of generate_cashflows on the inputs as they were passed
SensOriginalSponsor ==
    generate_cashflows(sn_args.deal, sn_args.sofr_curve, sn_args.exit_month,
                       FALSE, TRUE).results["sponsor"]

\* C16: the base_case_value run_2way_sensitivity returns is the chosen metric
\* of generate_cashflows on the deal, rate path and exit month as they were
\* passed in, whatever pair of parameters is swept and whatever the sweep
\* values are.
C16_BaseCaseIsUnperturbed ==
    (sn_pc = "returned" /\ sn_args.fn = "run_2way_sensitivity")
        => sn_out.base_case_value = MetricOf(SensOriginalSponsor, sn_args.metric)

\* C17: when a sensitivity operation has returned, the caller's Deal (fee
\* schedule and tranche list included) and the caller's rate path hold the
\* values they held before the call.
C17_InputsUnchanged ==
    sn_pc = "returned"
        => /\ sn_heap.deal = sn_args.deal
           /\ sn_heap.sofr_curve = sn_args.sofr_curve

\* C18: in a returned 1-way sweep, every point whose value is the base value
\* of the swept parameter carries the sponsor IRR, MOIC and profit of
\* generate_cashflows on the original deal.
C18_BasePointReproducesBase ==
    (sn_pc = "returned" /\ sn_args.fn = "run_1way_sensitivity")
        => \A i \in 1..Len(sn_out) :
             sn_out[i].param1_value = BaseValue(sn_args.deal, sn_args.param_name)
               => /\ sn_out[i].irr = SensOriginalSponsor.irr
                  /\ sn_out[i].moic = SensOriginalSponsor.moic
                  /\ sn_out[i].profit = SensOriginalSponsor.total_profit

MaxFlows == 3

\* Flows of a tenth and a twentieth of a loan unit, and a 10% gain
IrrFlowValues ==
    {-(MoneyScale \div 10), -(MoneyScale \div 20), 0,
     MoneyScale \div 10, (MoneyScale \div 100) * 11}

\* The cashflow sequences of up to MaxFlows flows
IrrFlowInputs ==
    UNION { [1..n -> IrrFlowValues] : n \in 0..MaxFlows }

\* Everything a call of calculate_irr hands to its caller: whether it raised,
\* and the float it returned.
IrrReturn(cashflows) == [raised |-> "", value |-> calc_irr(cashflows)]

IrrFrame ==
    UNCHANGED <<dl_vars, lw_vars, mc_vars, st_vars, cf_vars, sn_vars,
                vk_vars, sf_vars, rs_vars, pp_vars>>

IrrInit == ir_pc = "input" /\ ir_in \in IrrFlowInputs /\ ir_out = <<>>

\* calculate_irr(cashflows): return _calc_irr(cashflows)
CalculateIrr ==
    /\ ir_pc = "input"
    /\ ir_out' = IrrReturn(ir_in)
    /\ ir_pc' = "returned"
    /\ UNCHANGED ir_in
    /\ IrrFrame

IrrNext == CalculateIrr

\* No rate solves the IRR equation: there are no flows, or the flows that
\* are not zero all have one sign.
NoRate(cashflows) ==
    \/ Len(cashflows) = 0
    \/ /\ SignChanges(cashflows) = 0
       /\ \E i \in 1..Len(cashflows) : cashflows[i] # 0

\* A rate of the grid solves the IRR equation of the flows
HasIrr(cashflows) ==
    /\ Len(cashflows) > 0
    /\ SignChanges(cashflows) # 0
    /\ ~MonthlyIrr(cashflows).nan

\* What calculate_irr hands back for the sequences that have an IRR
SolvedReturns == { IrrReturn(f) : f \in { g \in IrrFlowInputs : HasIrr(g) } }

\* C20: calculate_irr never raises; for flows that no rate solves (all of one
\* sign, or none at all) it returns 0, and what it hands back differs from
\* what it hands back for any sequence that has an IRR, a genuine 0% included.
C20_NonConvergenceSignalled ==
    ir_pc = "returned"
        => /\ ir_out.raised = ""
           /\ NoRate(ir_in) => /\ ir_out.value = 0
                               /\ ir_out \notin SolvedReturns

(***************************************************************************)
(* sofr.py : get_live_sofr and the module-level cache                      *)
(***************************************************************************)
\* Times are minutes on the clock datetime.now() reads; rates are basis
\* points.
CACHE_DURATION_MINUTES == 15
DEFAULT_SOFR == 370
MaxClock == 16

\* _sofr_cache as the module is imported: value, timestamp and source are
\* None.  `set` is "value is not None".
EmptySofrCache == [set |-> FALSE, value |-> 0, timestamp |-> 0, source |-> "None"]

SOFRData(rate, timestamp, source) ==
    [rate |-> rate, timestamp |-> timestamp, source |-> source]

\* What fetch_sofr_from_nyfed and fetch_sofr_from_fred return: (rate, date),
\* or (None, None) on any failure (no API key, an exception inside the try,
\* an empty answer).
Fetched(rate) == [ok |-> TRUE, rate |-> rate]
FetchFailed == [ok |-> FALSE, rate |-> 0]
FetchOutcomes == {FetchFailed} \cup {Fetched(r) : r \in {0, 430}}

\* Lines 155-157 without the force_refresh test: the cache holds a value
\* younger than CACHE_DURATION_MINUTES.
SofrCacheNeverFresh(cache, now) == FALSE

SofrCacheFresh(cache, now) ==
    cache.set /\ now - cache.timestamp < CACHE_DURATION_MINUTES

\* get_live_sofr(force_refresh) called at time `now` on the cache `cache`,
\* when the two sources would answer `nyfed` and `fred`: the SOFRData
\* returned, the cache afterwards, and the fetches attempted.
get_live_sofr(cache, now, force_refresh, nyfed, fred) ==
    IF ~force_refresh /\ SofrCacheFresh(cache, now)
      THEN [data |-> SOFRData(cache.value, cache.timestamp, "cached"),
            cache |-> cache, fetches |-> <<>>]
    ELSE LET fetches == IF nyfed.ok THEN <<nyfed>> ELSE <<nyfed, fred>>
             got == fetches[Len(fetches)]
         IN  IF got.ok
               THEN [data |-> SOFRData(got.rate, now, "live"),
                     cache |-> [set |-> TRUE, value |-> got.rate,
                                timestamp |-> now, source |-> "live"],
                     fetches |-> fetches]
             ELSE IF cache.set
               THEN [data |-> SOFRData(cache.value, cache.timestamp, "cached (stale)"),
                     cache |-> cache, fetches |-> fetches]
             ELSE [data |-> SOFRData(DEFAULT_SOFR, now, "fallback"),
                   cache |-> cache, fetches |-> fetches]

SofrFrame ==
    UNCHANGED <<dl_vars, lw_vars, mc_vars, st_vars, cf_vars, ir_vars, sn_vars,
                vk_vars, rs_vars, pp_vars>>

SofrInit ==
    /\ sf_pc = "ready" /\ sf_cache = EmptySofrCache /\ sf_now = 0
    /\ sf_last = <<>> /\ sf_ret = <<>>

\* Time passes between two calls.
ClockAdvances ==
    /\ sf_pc = "ready"
    /\ \E d \in {1, 5} : sf_now + d <= MaxClock /\ sf_now' = sf_now + d
    /\ UNCHANGED <<sf_pc, sf_cache, sf_last, sf_ret>>
    /\ SofrFrame

\* A call of get_live_sofr.  sf_last is the history of the feed, not of the
\* cache: the latest rate a fetch returned and when; sf_ret keeps the call's
\* arguments, what it found and what it returned.
GetLiveSofr ==
    /\ sf_pc = "ready"
    /\ \E force_refresh \in BOOLEAN, nyfed \in FetchOutcomes, fred \in FetchOutcomes :
          LET r == get_live_sofr(sf_cache, sf_now, force_refresh, nyfed, fred)
              succeeded == { i \in 1..Len(r.fetches) : r.fetches[i].ok }
          IN  /\ sf_cache' = r.cache
              /\ sf_last' = IF succeeded = {} THEN sf_last
                            ELSE <<[rate |-> r.fetches[CHOOSE i \in succeeded : TRUE].rate,
                                    time |-> sf_now]>>
              /\ sf_ret' = [force_refresh |-> force_refresh, now |-> sf_now,
                            last_before |-> sf_last, cache_before |-> sf_cache,
                            fetches |-> r.fetches, data |-> r.data]
    /\ UNCHANGED <<sf_pc, sf_now>>
    /\ SofrFrame

SofrNext == ClockAdvances \/ GetLiveSofr

SofrAllFetchesFailed(ret) ==
    ret.fetches # <<>> /\ \A i \in 1..Len(ret.fetches) : ~ret.fetches[i].ok

\* C28: get_live_sofr serves the most recent successfully fetched rate when
\* there is one.  A call without force_refresh less than 15 minutes after a
\* successful fetch returns that rate with source "cached" and attempts no
\* fetch; a call whose fetches all fail leaves the cache as it was and
\* returns the stale cached rate; DEFAULT_SOFR is returned only if no fetch
\* ever succeeded; a fallback value is never written into the cache.
C28_ServesLatestFetchedRate ==
    /\ sf_cache.set <=> sf_last # <<>>
    /\ sf_cache.set => /\ sf_cache.value = sf_last[1].rate
                       /\ sf_cache.timestamp = sf_last[1].time
                       /\ sf_cache.source = "live"
    /\ sf_ret # <<>> =>
          /\ sf_last # <<>> => sf_ret.data.rate = sf_last[1].rate
          /\ (/\ ~sf_ret.force_refresh /\ sf_ret.last_before # <<>>
              /\ sf_ret.now - sf_ret.last_before[1].time < CACHE_DURATION_MINUTES) =>
                /\ sf_ret.fetches = <<>>
                /\ sf_ret.data = SOFRData(sf_ret.last_before[1].rate,
                                          sf_ret.last_before[1].time, "cached")
          /\ SofrAllFetchesFailed(sf_ret) =>
                /\ sf_cache = sf_ret.cache_before
                /\ sf_ret.last_before # <<>> =>
                      sf_ret.data = SOFRData(sf_ret.last_before[1].rate,
                                             sf_ret.last_before[1].time,
                                             "cached (stale)")
          /\ sf_ret.data.source = "fallback" <=>
                (sf_last = <<>> /\ sf_ret.last_before = <<>>)
          /\ sf_ret.data.source = "fallback" =>
                sf_ret.data.rate = DEFAULT_SOFR /\ ~sf_cache.set

\* A cached answer some minutes after the fetch, and none of the sources
\* asked although both would have answered.
C28_Witness ==
    /\ sf_ret # <<>>
    /\ sf_ret.data.source = "cached"
    /\ sf_ret.fetches = <<>>
    /\ sf_ret.now > sf_ret.data.timestamp
    /\ sf_ret.now - sf_ret.data.timestamp < CACHE_DURATION_MINUTES

(***************************************************************************)
(* reserves.py : ReserveAccount, ReserveManager,                           *)
(*               simulate_reserves_over_time                               *)
(***************************************************************************)
\* Balances are whole amounts of money; a rate of the interest_rate_curve is
\* a number of hundredths.  An Optional argument is <<>> for None and <<x>>
\* for the value x.
MaxSimMonths == 2
MaxSimRuns == 2

ReserveAccount(initial_balance, monthly_contribution, monthly_release, min_balance, history) ==
    [initial_balance |-> initial_balance, monthly_contribution |-> monthly_contribution,
     monthly_release |-> monthly_release, min_balance |-> min_balance,
     balance_history |-> history]

\* The property current_balance
current_balance(acct) ==
    IF acct.balance_history # <<>>
      THEN acct.balance_history[Len(acct.balance_history)]
      ELSE acct.initial_balance

\* ReserveAccount.process_month(contribution, release): the account after
\* the call
process_month(acct, contribution, release) ==
    LET contrib == IF contribution # <<>> THEN contribution[1]
                   ELSE acct.monthly_contribution
        starting_balance == current_balance(acct) + contrib
        rel == IF release # <<>> THEN release[1] ELSE acct.monthly_release
        ending_balance == Max(starting_balance - rel, acct.min_balance)
    IN  [acct EXCEPT !.balance_history = Append(@, ending_balance)]

\* ReserveAccount.reset()
reset_keeping_history(acct) == acct

reset(acct) == [acct EXCEPT !.balance_history = <<acct.initial_balance>>]

\* Lines 196-204: the release passed to process_month for an account in a
\* month of the simulation
simulated_release(rtype, month, interest_rate_curve, loan_amount, custom_releases) ==
    LET custom == IF /\ month \in DOMAIN custom_releases
                     /\ rtype \in DOMAIN custom_releases[month]
                    THEN <<custom_releases[month][rtype]>> ELSE <<>>
    IN  IF /\ rtype = "interest" /\ interest_rate_curve # <<>> /\ loan_amount # 0
           /\ month < Len(interest_rate_curve)
          THEN <<(loan_amount * interest_rate_curve[month + 1])
                    \div (PctDen * MonthsPerYear)>>
          ELSE custom

\* The months month..months-1 of the loop of line 193, for one account: the
\* accounts do not read one another.
RECURSIVE simulate_account(_, _, _, _, _, _, _)
simulate_account(acct, rtype, month, months, interest_rate_curve, loan_amount, custom_releases) ==
    IF month >= months THEN acct
    ELSE simulate_account(
            process_month(acct, <<>>,
                          simulated_release(rtype, month, interest_rate_curve,
                                            loan_amount, custom_releases)),
            rtype, month + 1, months, interest_rate_curve, loan_amount,
            custom_releases)

\* simulate_reserves_over_time: the accounts afterwards; the dict returned
\* holds their balance_history lists.
simulate_reserves_over_time(accounts, months, interest_rate_curve, loan_amount, custom_releases) ==
    [rtype \in DOMAIN accounts |->
        simulate_account(reset(accounts[rtype]), rtype, 0, months,
                         interest_rate_curve, loan_amount, custom_releases)]

\* Managers: accounts as create_reserve_manager_from_deal builds them
\* (funded, history [initial_balance]) for a loan of 1200 at 10%, and
\* accounts built one by one with add_account (history empty), one of them
\* with a minimum balance above its funding.
ReserveManagers ==
    { ("interest" :> ReserveAccount(60, 0, 10, 0, <<60>>))
        @@ ("capex" :> ReserveAccount(12, 5, 0, 0, <<12>>)),
      ("interest" :> ReserveAccount(15, 0, 10, 0, <<>>))
        @@ ("capex" :> ReserveAccount(4, 2, 1, 6, <<>>)) }

NoCustomReleases == [month \in {} |-> <<>>]

SimulationArgs ==
    { [months |-> months, interest_rate_curve |-> c.curve, loan_amount |-> c.loan,
       custom_releases |-> cr] :
        months \in 0..MaxSimMonths,
        c \in { [curve |-> <<>>, loan |-> 0], [curve |-> <<5>>, loan |-> 1200],
                [curve |-> <<5>>, loan |-> 0] },
        cr \in { NoCustomReleases,
                 (0 :> ("interest" :> 25)) @@ (1 :> ("capex" :> 7)) } }

ReservesFrame ==
    UNCHANGED <<dl_vars, lw_vars, mc_vars, st_vars, cf_vars, ir_vars, sn_vars,
                vk_vars, sf_vars, pp_vars>>

ReservesInit ==
    /\ rs_pc = "ready" /\ rs_accounts \in ReserveManagers
    /\ rs_args \in SimulationArgs /\ rs_ret = <<>>

\* ReserveManager.process_month(): every account, with its own monthly
\* contribution and release
ManagerProcessMonth ==
    /\ rs_pc = "ready"
    /\ \A rtype \in DOMAIN rs_accounts :
          Len(rs_accounts[rtype].balance_history) <= MaxSimMonths
    /\ rs_accounts' = [rtype \in DOMAIN rs_accounts |->
                          process_month(rs_accounts[rtype], <<>>, <<>>)]
    /\ UNCHANGED <<rs_pc, rs_args, rs_ret>>
    /\ ReservesFrame

\* get_account(rtype).process_month(contribution, release)
AccountProcessMonth ==
    /\ rs_pc = "ready"
    /\ \E rtype \in DOMAIN rs_accounts,
          override \in { [contribution |-> <<8>>, release |-> <<>>],
                         [contribution |-> <<>>, release |-> <<100>>] } :
          /\ Len(rs_accounts[rtype].balance_history) <= MaxSimMonths
          /\ rs_accounts' = [rs_accounts EXCEPT
                                ![rtype] = process_month(@, override.contribution,
                                                         override.release)]
    /\ UNCHANGED <<rs_pc, rs_args, rs_ret>>
    /\ ReservesFrame

\* A call of simulate_reserves_over_time on the manager with the arguments
\* rs_args; rs_ret keeps the series of every such call.
SimulateReservesOverTime ==
    /\ rs_pc = "ready"
    /\ Len(rs_ret) < MaxSimRuns
    /\ LET after == simulate_reserves_over_time(rs_accounts, rs_args.months,
                        rs_args.interest_rate_curve, rs_args.loan_amount,
                        rs_args.custom_releases)
       IN  /\ rs_accounts' = after
           /\ rs_ret' = Append(rs_ret, [rtype \in DOMAIN after |->
                                           after[rtype].balance_history])
    /\ UNCHANGED <<rs_pc, rs_args>>
    /\ ReservesFrame

\* A call of simulate_reserves_over_time over another number of months,
\* before or between the calls above.
SimulateWithOtherArguments ==
    /\ rs_pc = "ready"
    /\ \E a \in {[rs_args EXCEPT !.months = m] : m \in 0..MaxSimMonths} \ {rs_args} :
          rs_accounts' = simulate_reserves_over_time(rs_accounts, a.months,
                            a.interest_rate_curve, a.loan_amount, a.custom_releases)
    /\ UNCHANGED <<rs_pc, rs_args, rs_ret>>
    /\ ReservesFrame

ReservesNext ==
    \/ ManagerProcessMonth
    \/ AccountProcessMonth
    \/ SimulateReservesOverTime
    \/ SimulateWithOtherArguments

\* C29: simulate_reserves_over_time is repeatable.  Whatever process_month
\* calls and simulations came before, it returns for every account months + 1
\* balances, the first the account's initial_balance, and a second run with
\* the same arguments returns the same series.
C29_SimulationRepeatable ==
    /\ \A k \in 1..Len(rs_ret) :
          /\ DOMAIN rs_ret[k] = DOMAIN rs_accounts
          /\ \A rtype \in DOMAIN rs_ret[k] :
                /\ Len(rs_ret[k][rtype]) = rs_args.months + 1
                /\ rs_ret[k][rtype][1] = rs_accounts[rtype].initial_balance
    /\ \A j, k \in 1..Len(rs_ret) : rs_ret[j] = rs_ret[k]

\* A second run over several months with a rate curve, on histories that
\* are not what the first run left, and balances that moved.
C29_Witness ==
    /\ Len(rs_ret) >= 2
    /\ rs_args.months = MaxSimMonths
    /\ rs_args.interest_rate_curve # <<>>
    /\ rs_accounts["interest"].balance_history # rs_ret[1]["interest"]
    /\ \E i \in 2..Len(rs_ret[1]["interest"]) :
          rs_ret[1]["interest"][i] # rs_accounts["interest"].initial_balance

(***************************************************************************)
(* prepayment.py : generate_prepayment_schedule,                           *)
(*                 find_optimal_prepay_window                              *)
(***************************************************************************)
\* A penalty rate is a number of twelfths of a basis point, so that the
\* yield-maintenance rate, rate_diff * remaining_months / 12, is exact; the
\* rates passed in (penalty_schedule, current_rate, treasury rates,
\* max_penalty_rate) are basis points.  A penalty amount is loan_amount
\* times the penalty rate.
MaxTerm == 26
DefaultPeriodMonths == 12
DefaultSpreadFloor == 50
MinPenaltyRate == 100
DefaultCurrentRate == 800

DefaultPenaltySchedule == <<500, 400, 300, 200, 100>>

PrepaymentResult(penalty_amount, penalty_rate, can_prepay, lockout_remaining, penalty_type) ==
    [penalty_amount |-> penalty_amount, penalty_rate |-> penalty_rate,
     can_prepay |-> can_prepay, lockout_remaining |-> lockout_remaining,
     penalty_type |-> penalty_type]

\* The result of lines 65-72, 253-255 and 266-268: penalty_rate 1.0, amount
\* infinite
LockedOut(month, lockout_months) ==
    PrepaymentResult(Infinity, RateDen * MonthsPerYear, FALSE,
                     lockout_months - month, "lockout")

calculate_declining_penalty(loan_amount, month, lockout_months, penalty_schedule) ==
    IF month <= lockout_months THEN LockedOut(month, lockout_months)
    ELSE LET months_after_lockout == month - lockout_months
             period_index == Min(months_after_lockout \div DefaultPeriodMonths,
                                 Len(penalty_schedule) - 1)
         IN  IF months_after_lockout >= Len(penalty_schedule) * DefaultPeriodMonths
               THEN PrepaymentResult(0, 0, TRUE, 0, "open")
               ELSE LET penalty_rate == penalty_schedule[period_index + 1] * MonthsPerYear
                    IN  PrepaymentResult(loan_amount * penalty_rate, penalty_rate,
                                         TRUE, 0, "declining")

\* calculate_yield_maintenance for a discount rate that is not positive (line
\* 147): the rate differential over the remaining months, undiscounted.
calculate_yield_maintenance(loan_amount, current_rate, treasury_rate, remaining_months) ==
    LET rate_diff == Max(current_rate - treasury_rate, DefaultSpreadFloor)
        penalty_rate == Max(rate_diff * remaining_months,
                            MinPenaltyRate * MonthsPerYear)
    IN  PrepaymentResult(loan_amount * penalty_rate, penalty_rate, TRUE, 0,
                         "yield_maintenance")

\* Lines 248-276: the result for one month
prepayment_result(a, month) ==
    LET penalty_schedule == IF a.penalty_schedule = <<>> THEN DefaultPenaltySchedule
                            ELSE a.penalty_schedule[1]
    IN  CASE a.penalty_type = "none" -> PrepaymentResult(0, 0, TRUE, 0, "none")
          [] a.penalty_type = "lockout_only" ->
                IF month <= a.lockout_months THEN LockedOut(month, a.lockout_months)
                ELSE PrepaymentResult(0, 0, TRUE, 0, "open")
          [] a.penalty_type \in {"declining", "step_down"} ->
                calculate_declining_penalty(a.loan_amount, month, a.lockout_months,
                                            penalty_schedule)
          [] a.penalty_type = "yield_maintenance" ->
                IF month <= a.lockout_months THEN LockedOut(month, a.lockout_months)
                ELSE calculate_yield_maintenance(
                        a.loan_amount,
                        IF a.current_rate = <<>> \/ a.current_rate = <<0>>
                          THEN DefaultCurrentRate ELSE a.current_rate[1],
                        a.treasury_curve[Min(month - 1, Len(a.treasury_curve) - 1) + 1],
                        a.term_months - month)
          [] OTHER -> PrepaymentResult(0, 0, TRUE, 0, "unknown")

\* generate_prepayment_schedule: the tuples (month, penalty_rate,
\* penalty_amount, can_prepay) of the months 1..term_months, rate and amount
\* infinite where the loan cannot be prepaid.
generate_prepayment_schedule(a) ==
    list([month \in 1..Max(a.term_months, 0) |->
            LET result == prepayment_result(a, month)
            IN  <<month,
                  IF result.can_prepay THEN result.penalty_rate ELSE Infinity,
                  IF result.can_prepay THEN result.penalty_amount ELSE Infinity,
                  result.can_prepay>>])

\* Line 306: `and` does not evaluate the comparison when can_prepay is false.
Acceptable(entry, max_penalty_rate) ==
    entry[4] /\ entry[2] <= max_penalty_rate * MonthsPerYear

\* find_optimal_prepay_window: the first acceptable month and the last one,
\* <<>> for None.
RECURSIVE prepay_window_loop(_, _, _, _, _)
prepay_window_loop(prepayment_schedule, max_penalty_rate, k, start_month, end_month) ==
    IF k > Len(prepayment_schedule)
      THEN IF start_month # <<>> THEN <<start_month[1], end_month[1]>> ELSE <<>>
    ELSE IF Acceptable(prepayment_schedule[k], max_penalty_rate)
      THEN prepay_window_loop(prepayment_schedule, max_penalty_rate, k + 1,
                              IF start_month = <<>>
                                THEN <<prepayment_schedule[k][1]>> ELSE start_month,
                              <<prepayment_schedule[k][1]>>)
    ELSE prepay_window_loop(prepayment_schedule, max_penalty_rate, k + 1,
                            start_month, end_month)

find_optimal_prepay_window(prepayment_schedule, max_penalty_rate) ==
    prepay_window_loop(prepayment_schedule, max_penalty_rate, 1, <<>>, <<>>)

\* Arguments.  penalty_schedule and current_rate are <<>> for None and <<x>>
\* for x; the penalty schedules are the default, "2-1", "flat_3", a rising
\* one and an empty one; the treasury curve is flat at zero.
PrepaymentTypes ==
    {"none", "lockout_only", "declining", "step_down", "yield_maintenance", "defeasance"}

PrepayInputs ==
    { [loan_amount |-> 2, term_months |-> term, lockout_months |-> lockout,
       penalty_type |-> type, penalty_schedule |-> ps, current_rate |-> cr,
       treasury_curve |-> <<0>>] :
        term \in {0, 1, 13, MaxTerm}, lockout \in {0, 6, MaxTerm + 4},
        type \in PrepaymentTypes,
        ps \in {<<>>, <<<<200, 100>>>>, <<<<300, 300, 300>>>>, <<<<200, 300>>>>,
                <<<<>>>>},
        cr \in {<<>>, <<600>>} }

MaxPenaltyRates == {0, 100, 200, 400}

PrepayFrame ==
    UNCHANGED <<dl_vars, lw_vars, mc_vars, st_vars, cf_vars, ir_vars, sn_vars,
                vk_vars, sf_vars, rs_vars>>

PrepayInit ==
    /\ pp_pc = "input" /\ pp_in \in PrepayInputs
    /\ pp_schedule = <<>> /\ pp_out = <<>>

GeneratePrepaymentSchedule ==
    /\ pp_pc = "input"
    /\ pp_schedule' = generate_prepayment_schedule(pp_in)
    /\ pp_pc' = "scheduled"
    /\ UNCHANGED <<pp_in, pp_out>>
    /\ PrepayFrame

FindOptimalPrepayWindow ==
    /\ pp_pc = "scheduled"
    /\ \E max_penalty_rate \in MaxPenaltyRates :
          pp_out' = [max_penalty_rate |-> max_penalty_rate,
                     window |-> find_optimal_prepay_window(pp_schedule,
                                                           max_penalty_rate)]
    /\ pp_pc' = "returned"
    /\ UNCHANGED <<pp_in, pp_schedule>>
    /\ PrepayFrame

PrepayNext == GeneratePrepaymentSchedule \/ FindOptimalPrepayWindow

\* The months of the schedule that can be prepaid at a penalty rate of at
\* most max_penalty_rate
AcceptableMonths ==
    { k \in 1..Len(pp_schedule) : Acceptable(pp_schedule[k], pp_out.max_penalty_rate) }

\* C30: find_optimal_prepay_window returns (start, end) with start the
\* earliest month that can be prepaid at a penalty rate <= max_penalty_rate
\* and every month of start..end such a month, for every schedule
\* generate_prepayment_schedule produces; it returns None iff no month
\* qualifies.
C30_WindowAcceptable ==
    pp_pc = "returned" =>
        /\ pp_out.window = <<>> <=> AcceptableMonths = {}
        /\ pp_out.window # <<>> =>
              /\ pp_out.window[1] \in AcceptableMonths
              /\ \A k \in AcceptableMonths : pp_out.window[1] <= k
              /\ \A k \in pp_out.window[1]..pp_out.window[2] : k \in AcceptableMonths

\* What the loop does give: the first and the last acceptable month, with
\* only acceptable months between them when the penalty rates of the
\* schedule never rise from one month to the next.
PrepayRatesNeverRise ==
    \A k \in 1..(Len(pp_schedule) - 1) :
        (pp_schedule[k][4] /\ pp_schedule[k + 1][4]) =>
            pp_schedule[k + 1][2] <= pp_schedule[k][2]

PrepayWindowSpansAcceptable ==
    pp_pc = "returned" =>
        /\ pp_out.window = <<>> <=> AcceptableMonths = {}
        /\ pp_out.window # <<>> =>
              /\ pp_out.window[1] \in AcceptableMonths
              /\ pp_out.window[2] \in AcceptableMonths
              /\ \A k \in AcceptableMonths :
                    pp_out.window[1] <= k /\ k <= pp_out.window[2]
              /\ PrepayRatesNeverRise =>
                    \A k \in pp_out.window[1]..pp_out.window[2] : k \in AcceptableMonths

(***************************************************************************)
(* Specifications                                                          *)
(***************************************************************************)
InitDeal == DealIdle /\ LossIdle /\ McIdle /\ StIdle /\ CfIdle /\ IrrIdle /\ SensIdle
            /\ VasicekIdle /\ SofrIdle /\ ReservesIdle /\ PrepayIdle
SpecDeal == InitDeal /\ [][DealNext]_vars

InitLoss == LossInit /\ DealIdle /\ McIdle /\ StIdle /\ CfIdle /\ IrrIdle /\ SensIdle
            /\ VasicekIdle /\ SofrIdle /\ ReservesIdle /\ PrepayIdle
SpecLoss == InitLoss /\ [][LossNext]_vars

InitCF == CfInit /\ DealIdle /\ LossIdle /\ McIdle /\ StIdle /\ IrrIdle /\ SensIdle
          /\ VasicekIdle /\ SofrIdle /\ ReservesIdle /\ PrepayIdle
SpecCF == InitCF /\ [][CfNext]_vars

InitStats == StatsInit /\ DealIdle /\ LossIdle /\ McIdle /\ CfIdle /\ IrrIdle /\ SensIdle
             /\ VasicekIdle /\ SofrIdle /\ ReservesIdle /\ PrepayIdle
SpecStats == InitStats /\ [][StatsNext]_vars

InitMC == McInit /\ DealIdle /\ LossIdle /\ StIdle /\ CfIdle /\ IrrIdle /\ SensIdle
          /\ VasicekIdle /\ SofrIdle /\ ReservesIdle /\ PrepayIdle
SpecMC == InitMC /\ [][McNext]_vars

InitIrr == IrrInit /\ DealIdle /\ LossIdle /\ McIdle /\ StIdle /\ CfIdle /\ SensIdle
           /\ VasicekIdle /\ SofrIdle /\ ReservesIdle /\ PrepayIdle
SpecIrr == InitIrr /\ [][IrrNext]_vars

InitSens == SensInit /\ DealIdle /\ LossIdle /\ McIdle /\ StIdle /\ CfIdle /\ IrrIdle
            /\ VasicekIdle /\ SofrIdle /\ ReservesIdle /\ PrepayIdle
SpecSens == InitSens /\ [][SensNext]_vars

InitVasicek == VasicekInit /\ DealIdle /\ LossIdle /\ McIdle /\ StIdle /\ CfIdle
               /\ IrrIdle /\ SensIdle /\ SofrIdle /\ ReservesIdle /\ PrepayIdle
SpecVasicek == InitVasicek /\ [][VasicekNext]_vars

InitSofr == SofrInit /\ DealIdle /\ LossIdle /\ McIdle /\ StIdle /\ CfIdle
            /\ IrrIdle /\ SensIdle /\ VasicekIdle /\ ReservesIdle /\ PrepayIdle
SpecSofr == InitSofr /\ [][SofrNext]_vars

InitReserves == ReservesInit /\ DealIdle /\ LossIdle /\ McIdle /\ StIdle /\ CfIdle
                /\ IrrIdle /\ SensIdle /\ VasicekIdle /\ SofrIdle /\ PrepayIdle
SpecReserves == InitReserves /\ [][ReservesNext]_vars

InitPrepay == PrepayInit /\ DealIdle /\ LossIdle /\ McIdle /\ StIdle /\ CfIdle
              /\ IrrIdle /\ SensIdle /\ VasicekIdle /\ SofrIdle /\ ReservesIdle
SpecPrepay == InitPrepay /\ [][PrepayNext]_vars

=============================================================================
